---------------------------- MODULE Spec2Model ----------------------------
(***************************************************************************)
(* A model of the subscription bot of src/main.py: the spreadsheet tables  *)
(* (Users, Subscriptions, Purchases, Referrals, GiftCards, Withdrawals,    *)
(* DiscountCodes, BoostCodes), the conversation state and timer tasks, and *)
(* the handlers that read and write them.                                  *)
(*                                                                         *)
(* Conventions.                                                            *)
(*  - A table is the sequence of its data rows; data row i of the model is *)
(*    sheet row i + 1 (the header is sheet row 1), so the code's           *)
(*    enumerate(rows[1:], start=2) index idx is i + 1.                     *)
(*  - A row is a record whose fields are the header names of               *)
(*    SHEET_DEFINITIONS; a positional access row[k] of the code is the     *)
(*    field the header gives for column k.                                 *)
(*  - Money is counted in 1/10000 USD, so that a whole percentage of a     *)
(*    discounted price is an integer.                                      *)
(*  - Time is counted in days; now_iso() is the clock's value.             *)
(*  - Every handler is one atomic action (its awaits do not interleave).   *)
(***************************************************************************)
EXTENDS Integers, Sequences, FiniteSets, Bags, TLC

(***************************************************************************)
(* Bounds of the model.                                                    *)
(***************************************************************************)
NUsers == 3
MaxTime == 360
MaxPurchases == 2
MaxApprovals == 2
MaxWithdrawals == 2
MaxCodes == 2
MaxUses == 2
NBuyers == 2

(***************************************************************************)
(* Program constants.                                                      *)
(***************************************************************************)
NORMAL_PRICE == 50000
PREMIUM_PRICE == 200000
SubscriptionDays == 180
DefaultLevel1Percent == 8
DefaultLevel2Percent == 12
ADMIN_TELEGRAM_ID == 9
ADMIN2_TELEGRAM_ID == 8
NORMAL_CHANNEL_ID == "normal_channel"
PREMIUM_CHANNEL_ID == "premium_channel"
TEST_CHANNEL_ID == "test_channel"

UserIds == 1..NUsers
Channels == {PREMIUM_CHANNEL_ID, NORMAL_CHANNEL_ID}
AllChannels == Channels \cup {TEST_CHANNEL_ID}
Products == {"normal", "premium", "gift_normal", "gift_premium"}
PayMethods == {"card", "usdt"}
TickSteps == {SubscriptionDays}

VARIABLES
    now,            \* the wall clock, in days
    Users,          \* sheet Users
    Subscriptions,  \* sheet Subscriptions
    Purchases,      \* sheet Purchases
    Referrals,      \* sheet Referrals
    GiftCards,      \* sheet GiftCards
    Withdrawals,    \* sheet Withdrawals
    DiscountCodes,  \* sheet DiscountCodes
    user_states,    \* the process-wide dict user id -> conversation state
    tasks,          \* the bag of pending schedule_expiry tasks
    rebuilt,        \* whether rebuild_subscription_schedules ran since the process started
    invites,        \* create_invite_link calls, per user and channel
    removed,        \* remove_from_channel calls since the process started, per user and channel
    keyboards,      \* the gift buttons each user has been sent
    buttons,        \* the approve/reject keyboards in the admin's chat
    hist,           \* per purchase: the activations, commission runs, links and gift cards made for it
    last_debit,     \* the last debit update_user_balance made: wallet before, amount, wallet after
    startup_expired, \* the users whose row the startup pass of this process set to expired
    BoostCodes,     \* sheet BoostCodes
    reminders,      \* the bag of pending schedule_expiry_reminders tasks
    reminded,       \* the expiry reminders sent: to whom, which one, when, for which expiry
    test_timers,    \* the bag of pending schedule_test_removal tasks
    replies,        \* the last answer of the trial and boost handlers to each user
    failing,        \* the channels for which the calls of the Telegram API raise
    Tickets,        \* sheet Tickets
    running         \* the handlers suspended at an await: which, for whom, where

vars == <<now, Users, Subscriptions, Purchases, Referrals, GiftCards, Withdrawals,
          DiscountCodes, user_states, tasks, rebuilt, invites, removed, keyboards, buttons,
          hist, last_debit, startup_expired,
                   BoostCodes, reminders, reminded, test_timers, replies, failing, Tickets, running>>

(***************************************************************************)
(* Cells that hold a text, a timestamp or a user id, depending on which    *)
(* handler wrote them.                                                     *)
(***************************************************************************)
Txt(s) == [k |-> "text", s |-> s, n |-> 0]
Iso(t) == [k |-> "time", s |-> "", n |-> t]
IdStr(u) == [k |-> "id", s |-> "", n |-> u]
Empty == Txt("")

(***************************************************************************)
(* The store as the handlers see it: the tables and the side effects of    *)
(* the calls a handler makes, threaded through the calls in order.         *)
(***************************************************************************)
World ==
    [Users |-> Users, Subscriptions |-> Subscriptions, Purchases |-> Purchases,
     Referrals |-> Referrals, GiftCards |-> GiftCards, Withdrawals |-> Withdrawals,
     DiscountCodes |-> DiscountCodes, user_states |-> user_states, tasks |-> tasks,
     invites |-> invites, removed |-> removed, hist |-> hist, last_debit |-> last_debit,
     startup_expired |-> startup_expired, BoostCodes |-> BoostCodes,
     reminders |-> reminders, reminded |-> reminded,
     test_timers |-> test_timers, replies |-> replies, failing |-> failing,
     Tickets |-> Tickets, running |-> running]

Commit(w) ==
    /\ Users' = w.Users
    /\ Subscriptions' = w.Subscriptions
    /\ Purchases' = w.Purchases
    /\ Referrals' = w.Referrals
    /\ GiftCards' = w.GiftCards
    /\ Withdrawals' = w.Withdrawals
    /\ DiscountCodes' = w.DiscountCodes
    /\ user_states' = w.user_states
    /\ tasks' = w.tasks
    /\ invites' = w.invites
    /\ removed' = w.removed
    /\ hist' = w.hist
    /\ last_debit' = w.last_debit
    /\ startup_expired' = w.startup_expired
    /\ BoostCodes' = w.BoostCodes
    /\ reminders' = w.reminders
    /\ reminded' = w.reminded
    /\ test_timers' = w.test_timers
    /\ replies' = w.replies
    /\ failing' = w.failing
    /\ Tickets' = w.Tickets
    /\ running' = w.running

\* The index of the first row of a table that satisfies Test, 0 when there is none.
FirstIndex(rows, Test(_)) ==
    LET hits == {i \in 1..Len(rows) : Test(rows[i])}
    IN  IF hits = {} THEN 0 ELSE CHOOSE i \in hits : \A j \in hits : i <= j

Max(a, b) == IF a >= b THEN a ELSE b

(***************************************************************************)
(* User directory.                                                         *)
(***************************************************************************)
NoBoost == [active |-> FALSE, code |-> "", level1 |-> 0, level2 |-> 0]

NewUser(tid, referred_by) ==
    [telegram_id |-> tid, email |-> "", referral_code |-> tid, referred_by |-> referred_by,
     wallet_balance |-> 0, status |-> "active", boost_data |-> NoBoost]

find_user(users, tid) == FirstIndex(users, LAMBDA r : r.telegram_id = tid)

\* The record of a debit: who, the wallet before, the amount, the wallet after.
Debit(tid, before, amount, after) ==
    [telegram_id |-> tid, before |-> before, amount |-> amount, after |-> after]

NoDebit == Debit(0, 0, 0, 0)

\* A faulty variant of update_user_balance: the floor max(0, .) is missing.
update_user_balance_no_floor(w, tid, amount, add) ==
    LET i == find_user(w.Users, tid)
        current == IF add THEN w.Users[i].wallet_balance + amount
                          ELSE w.Users[i].wallet_balance - amount
    IN  IF i = 0 THEN w
        ELSE [w EXCEPT !.Users[i].wallet_balance = current,
                       !.last_debit = IF add THEN @
                                      ELSE Debit(tid, w.Users[i].wallet_balance, amount, current)]

update_user_balance(w, tid, amount, add) ==
    LET i == find_user(w.Users, tid)
        current == IF add THEN w.Users[i].wallet_balance + amount
                          ELSE w.Users[i].wallet_balance - amount
    IN  IF i = 0 THEN w
        ELSE [w EXCEPT !.Users[i].wallet_balance = Max(0, current),
                       !.last_debit = IF add THEN @
                                      ELSE Debit(tid, w.Users[i].wallet_balance, amount,
                                                 Max(0, current))]

\* The user's boost rates, or NoBoost for None.
get_user_boost(users, tid) ==
    LET i == find_user(users, tid)
    IN  IF i = 0 THEN NoBoost
        ELSE IF users[i].boost_data.active THEN users[i].boost_data ELSE NoBoost

(***************************************************************************)
(* Referral commissions.                                                   *)
(***************************************************************************)
ReferralRow(referrer_id, referred_id, level, commission, purchase_id, t) ==
    [referrer_id |-> referrer_id, referred_id |-> referred_id, level |-> level,
     commission_usd |-> commission, status |-> "paid", purchase_id |-> purchase_id,
     created_at |-> t, paid_at |-> t]

\* A faulty variant of Level1Rate: the referrer's boost is not looked at.
Level1Rate_without_boost(users, referrer_id) == DefaultLevel1Percent

Level1Rate(users, referrer_id) ==
    LET b == get_user_boost(users, referrer_id)
    IN  IF b.active THEN b.level1 ELSE DefaultLevel1Percent

\* A faulty variant of Level2Rate: the level-2 referrer's boost is not looked at.
Level2Rate_without_boost(users, level2_referrer_id) == DefaultLevel2Percent

Level2Rate(users, level2_referrer_id) ==
    LET b == get_user_boost(users, level2_referrer_id)
    IN  IF b.active THEN b.level2 ELSE DefaultLevel2Percent

\* The second half of process_referral_commission: the level-2 payout.
Level2Commission(w, purchase_id, buyer_id, referrer_id, amount_usd, t) ==
    LET r == find_user(w.Users, referrer_id)
        level2_referrer_id == w.Users[r].referred_by
        level2_commission == (amount_usd * Level2Rate(w.Users, level2_referrer_id)) \div 100
        w1 == update_user_balance(w, level2_referrer_id, level2_commission, TRUE)
    IN  IF r = 0 THEN w
        ELSE IF level2_referrer_id = 0 \/ level2_referrer_id = buyer_id THEN w
        ELSE [w1 EXCEPT !.Referrals = Append(@,
                 ReferralRow(level2_referrer_id, buyer_id, 2, level2_commission, purchase_id, t))]

process_referral_commission(w, purchase_id, buyer_id, amount_usd, t) ==
    LET b == find_user(w.Users, buyer_id)
        referrer_id == w.Users[b].referred_by
        level1_commission == (amount_usd * Level1Rate(w.Users, referrer_id)) \div 100
        w1 == update_user_balance(w, referrer_id, level1_commission, TRUE)
        w2 == [w1 EXCEPT !.Referrals = Append(@,
                 ReferralRow(referrer_id, buyer_id, 1, level1_commission, purchase_id, t))]
    IN  IF b = 0 THEN w
        ELSE IF referrer_id = 0 THEN w
        ELSE Level2Commission(w2, purchase_id, buyer_id, referrer_id, amount_usd, t)

(***************************************************************************)
(* Subscription lifecycle.                                                 *)
(***************************************************************************)
\* A faulty variant of ChannelsOf: the premium tier without the normal channel.
ChannelsOf_premium_only(product) ==
    IF product = "premium" THEN {PREMIUM_CHANNEL_ID} ELSE {NORMAL_CHANNEL_ID}

ChannelsOf(product) ==
    IF product = "premium" THEN {PREMIUM_CHANNEL_ID, NORMAL_CHANNEL_ID}
    ELSE {NORMAL_CHANNEL_ID}

SubscriptionRow(tid, product, payment_method, t) ==
    [telegram_id |-> tid, subscription_type |-> product, status |-> "active",
     activated_at |-> t, expires_at |-> t + SubscriptionDays,
     payment_method |-> payment_method]

ExpiryTask(tid, channels, due) == [telegram_id |-> tid, channels |-> channels, due |-> due]

\* The coroutine schedule_expiry_reminders at one of its sleeps: seven, three
\* and one are the delays it computed when it started, stage is the reminder
\* it sends when the sleep is over, wake the time at which the sleep is over.
ReminderJob(tid, expires, t) ==
    [telegram_id |-> tid, expires |-> expires, seven |-> expires - 7 - t,
     three |-> expires - 3 - t, one |-> expires - 1 - t, stage |-> "start", wake |-> t]

\* The coroutine runs from the test of the given stage, at time t, to its
\* next sleep or to its end.
RECURSIVE ReminderFrom(_, _, _)
ReminderFrom(job, stage, t) ==
    CASE stage = "seven" ->
             IF job.seven > 0 THEN [job EXCEPT !.stage = "seven", !.wake = t + job.seven]
             ELSE ReminderFrom(job, "three", t)
      [] stage = "three" ->
             IF job.three > 0
             THEN [job EXCEPT !.stage = "three", !.wake = t + Max(0, job.three - job.seven)]
             ELSE ReminderFrom(job, "one", t)
      [] stage = "one" ->
             IF job.one > 0
             THEN [job EXCEPT !.stage = "one", !.wake = t + Max(0, job.one - job.three)]
             ELSE [job EXCEPT !.stage = "done"]
      [] OTHER -> [job EXCEPT !.stage = "done"]

NextStage(stage) ==
    CASE stage = "seven" -> "three"
      [] stage = "three" -> "one"
      [] OTHER -> "done"

DaysOf(stage) ==
    CASE stage = "seven" -> 7
      [] stage = "three" -> 3
      [] OTHER -> 1

AddJob(bag, job) == IF job.stage = "done" THEN bag ELSE bag (+) SetToBag({job})

\* create_task(schedule_expiry_reminders(telegram_id, expires)) at time t.
schedule_expiry_reminders(w, tid, expires, t) ==
    [w EXCEPT !.reminders = AddJob(@, ReminderFrom(ReminderJob(tid, expires, t), "seven", t))]

\* A sleep of schedule_expiry_reminders is over at time t: the reminder of
\* the stage is sent and the coroutine runs on.
send_reminder(w, job, t) ==
    [w EXCEPT !.reminded = @ \cup {[telegram_id |-> job.telegram_id, days |-> DaysOf(job.stage),
                                    at |-> t, expires |-> job.expires]},
              !.reminders = AddJob(@ (-) SetToBag({job}),
                                   ReminderFrom(job, NextStage(job.stage), t))]

\* A faulty variant of WriteSubscription: the row is appended without looking for one.
WriteSubscription_always_append(subs, tid, product, payment_method, t) ==
    Append(subs, SubscriptionRow(tid, product, payment_method, t))

\* The Subscriptions table after activate_subscription's lookup and write.
WriteSubscription(subs, tid, product, payment_method, t) ==
    LET i == FirstIndex(subs, LAMBDA r : r.telegram_id = tid)
    IN  IF i # 0 THEN [subs EXCEPT ![i] = SubscriptionRow(tid, product, payment_method, t)]
        ELSE Append(subs, SubscriptionRow(tid, product, payment_method, t))

activate_subscription(w, tid, product, payment_method, t) ==
    LET u == find_user(w.Users, tid)
        channels == ChannelsOf(product)
        w1 == [w EXCEPT
                  !.Subscriptions = WriteSubscription(@, tid, product, payment_method, t),
                  !.Users = IF u = 0 THEN @ ELSE [@ EXCEPT ![u].status = "active"],
                  !.invites = [c \in AllChannels |->
                                  [x \in UserIds |->
                                      IF x = tid /\ c \in channels THEN @[c][x] + 1
                                      ELSE @[c][x]]],
                  !.tasks = @ (+) SetToBag({ExpiryTask(tid, channels, t + SubscriptionDays)})]
    IN  schedule_expiry_reminders(w1, tid, t + SubscriptionDays, t)

\* remove_from_channel for each channel of the list: a call that raises is
\* caught inside remove_from_channel and counts as a call.
RemoveFromChannels(rem, tid, channels) ==
    [c \in AllChannels |->
        [x \in UserIds |-> IF x = tid /\ c \in channels THEN rem[c][x] + 1 ELSE rem[c][x]]]

\* The first Subscriptions row of the user is marked expired.
MarkExpired(subs, tid) ==
    LET i == FirstIndex(subs, LAMBDA r : r.telegram_id = tid)
    IN  IF i = 0 THEN subs ELSE [subs EXCEPT ![i].status = "expired"]

(***************************************************************************)
(* Conversation state: the dict a handler stores under the user's id. A    *)
(* key the dict does not hold has the value of NoState.                    *)
(***************************************************************************)
NoState ==
    [state |-> "", purchase_id |-> 0, product |-> "", amount_usd |-> 0, method |-> "",
     balance |-> 0, discount_code |-> "", discount_percent |-> 0, gift_product |-> "",
     gift_message |-> "", withdrawal_idx |-> 0, user_id |-> 0, email |-> ""]

\* What has been done on account of a purchase, nothing at its creation.
NoHist == [activations |-> 0, commissions |-> 0, gifts |-> 0, normal_links |-> 0,
           premium_links |-> 0]

StateOwners == UserIds \cup {ADMIN_TELEGRAM_ID, ADMIN2_TELEGRAM_ID}

(***************************************************************************)
(* Discount codes.                                                         *)
(***************************************************************************)
CodeNames == {"save", "SAVE", "vip", "VIP"}

upper(code) ==
    CASE code = "save" -> "SAVE"
      [] code = "vip" -> "VIP"
      [] OTHER -> code

\* None of validate_discount_code.
Invalid == [ok |-> FALSE, discount |-> 0, idx |-> 0]

\* A faulty variant of validate_discount_code: the quota is not looked at.
validate_discount_code_no_quota(codes, code, t) ==
    LET i == FirstIndex(codes, LAMBDA r : upper(r.code) = upper(code))
    IN  IF i = 0 THEN Invalid
        ELSE IF codes[i].status # "active" THEN Invalid
        ELSE IF codes[i].valid_until < t THEN Invalid
        ELSE [ok |-> TRUE, discount |-> codes[i].discount_percent, idx |-> i + 1]

validate_discount_code(codes, code, t) ==
    LET i == FirstIndex(codes, LAMBDA r : upper(r.code) = upper(code))
    IN  IF i = 0 THEN Invalid
        ELSE IF codes[i].status # "active" THEN Invalid
        ELSE IF codes[i].valid_until < t THEN Invalid
        ELSE IF codes[i].max_uses > 0 /\ codes[i].used_count >= codes[i].max_uses THEN Invalid
        ELSE [ok |-> TRUE, discount |-> codes[i].discount_percent, idx |-> i + 1]

use_discount_code(codes, code) ==
    LET i == FirstIndex(codes, LAMBDA r : upper(r.code) = upper(code))
    IN  IF i = 0 THEN codes ELSE [codes EXCEPT ![i].used_count = @ + 1]

create_discount_code(codes, code, discount_percent, max_uses, valid_days, created_by, t) ==
    IF \E i \in 1..Len(codes) : upper(codes[i].code) = upper(code) THEN codes
    ELSE Append(codes,
            [code |-> upper(code), discount_percent |-> discount_percent,
             max_uses |-> max_uses, used_count |-> 0, valid_until |-> t + valid_days,
             created_by |-> created_by, created_at |-> t, status |-> "active"])

\* handle_discount_code_input: the code is kept in the state if it validates.
handle_discount_code_input(w, user, text, t) ==
    LET code == upper(text)
        validation == validate_discount_code(w.DiscountCodes, code, t)
    IN  IF validation.ok
        THEN [w EXCEPT !.user_states[user] =
                 [NoState EXCEPT !.state = "discount_validated", !.discount_code = code,
                                 !.discount_percent = validation.discount]]
        ELSE [w EXCEPT !.user_states[user] = NoState]

(***************************************************************************)
(* Purchases.                                                              *)
(***************************************************************************)
\* The row pad_row makes of the 13-element lists the handlers append: the
\* list has no element for admin_action, so its elements 8..12 land in the
\* columns admin_action, status, created_at, approved_at, approved_by, and
\* notes is the padding.
PurchaseRow13(purchase_id, tid, product, amount_usd, method, e7, e8, e9, e10, e11, e12) ==
    [purchase_id |-> purchase_id, telegram_id |-> tid, product |-> product,
     amount_usd |-> amount_usd, payment_method |-> method, transaction_id |-> e7,
     admin_action |-> e8, status |-> e9, created_at |-> e10, approved_at |-> e11,
     approved_by |-> e12, notes |-> ""]

\* generate_purchase_id: an id no earlier row has.
generate_purchase_id(purchases) == Len(purchases) + 1

IsGift(product) == product \in {"gift_normal", "gift_premium"}

ActualProduct(product) ==
    CASE product = "gift_normal" -> "normal"
      [] product = "gift_premium" -> "premium"
      [] OTHER -> product

PriceOf(actual_product) == IF actual_product = "normal" THEN NORMAL_PRICE ELSE PREMIUM_PRICE

\* The price callback_payment_method charges: the tier price, reduced by the
\* percentage of the discount code in the user's state if it still validates.
CheckoutPrice(w, user, product, t) ==
    LET price_usd == PriceOf(ActualProduct(product))
        code == w.user_states[user].discount_code
        validation == validate_discount_code(w.DiscountCodes, code, t)
    IN  IF ~IsGift(product) /\ code # "" /\ validation.ok
        THEN (price_usd * (100 - validation.discount)) \div 100
        ELSE price_usd

callback_payment_method(w, user, method, product, t) ==
    LET price_usd == CheckoutPrice(w, user, product, t)
        purchase_id == generate_purchase_id(w.Purchases)
        row == PurchaseRow13(purchase_id, user, product, price_usd, method,
                             "", "pending", Iso(t), Empty, Empty, Empty)
        st == [NoState EXCEPT
                 !.state = IF method = "card" THEN "awaiting_card_receipt"
                           ELSE "awaiting_usdt_txid",
                 !.purchase_id = purchase_id, !.product = product,
                 !.amount_usd = price_usd]
    IN  [w EXCEPT !.Purchases = Append(@, row), !.hist = Append(@, NoHist),
                  !.user_states[user] = st]

\* handle_card_receipt: the photo is attached to the purchase row.
handle_card_receipt(w, user) ==
    LET purchase_id == w.user_states[user].purchase_id
        i == FirstIndex(w.Purchases, LAMBDA r : r.purchase_id = purchase_id)
    IN  [w EXCEPT !.Purchases = IF i = 0 THEN @ ELSE [@ EXCEPT ![i].transaction_id = "photo"],
                  !.user_states[user] = NoState]

\* handle_usdt_txid with a TXID of at least 20 characters.
handle_usdt_txid(w, user) ==
    LET purchase_id == w.user_states[user].purchase_id
        i == FirstIndex(w.Purchases, LAMBDA r : r.purchase_id = purchase_id)
    IN  [w EXCEPT !.Purchases = IF i = 0 THEN @
                                ELSE [@ EXCEPT ![i].transaction_id = "txid",
                                               ![i].admin_action = "pending"],
                  !.user_states[user] = NoState]

(***************************************************************************)
(* Gift cards.                                                             *)
(***************************************************************************)
\* generate_gift_code: a code no earlier row has.
generate_gift_code(giftcards) == Len(giftcards) + 1

create_gift_card(w, product, buyer_id, message, t) ==
    [w EXCEPT !.GiftCards = Append(@,
        [gift_code |-> generate_gift_code(w.GiftCards), product |-> product,
         amount_usd |-> PriceOf(product), buyer_id |-> buyer_id, recipient_id |-> 0,
         message |-> message, status |-> "pending", created_at |-> t,
         redeemed_at |-> Empty])]

(***************************************************************************)
(* Admin approval of purchases.                                            *)
(***************************************************************************)
\* activate_subscription, then process_referral_commission, for a purchase.
ActivateAndPay(w, purchase_id, tid, product, payment_method, amount_usd, t) ==
    LET w1 == activate_subscription(w, tid, product, payment_method, t)
        w2 == process_referral_commission(w1, purchase_id, tid, amount_usd, t)
    IN  [w2 EXCEPT !.hist[purchase_id].activations = @ + 1,
                   !.hist[purchase_id].commissions = @ + 1,
                   !.hist[purchase_id].normal_links =
                       @ + w1.invites[NORMAL_CHANNEL_ID][tid] - w.invites[NORMAL_CHANNEL_ID][tid],
                   !.hist[purchase_id].premium_links =
                       @ + w1.invites[PREMIUM_CHANNEL_ID][tid] - w.invites[PREMIUM_CHANNEL_ID][tid]]

\* A faulty variant of callback_admin_purchase: a rejected purchase is
\* activated and paid for like an approved one.
callback_admin_purchase_reject_activates(w, action, purchase_id, user_id, admin, t) ==
    LET i == FirstIndex(w.Purchases, LAMBDA r : r.purchase_id = purchase_id)
        row == w.Purchases[i]
        decided == [w EXCEPT
                      !.Purchases[i].admin_action =
                          IF action = "approve" THEN "approved" ELSE "rejected",
                      !.Purchases[i].created_at = Iso(t),
                      !.Purchases[i].approved_at = IdStr(admin)]
    IN  IF i = 0 THEN w
        ELSE ActivateAndPay(decided, purchase_id, user_id, row.product,
                            row.payment_method, row.amount_usd, t)

\* callback_admin_purchase for the button approve_<purchase_id>_<user_id> or
\* reject_<purchase_id>_<user_id>, pressed by an admin.
callback_admin_purchase(w, action, purchase_id, user_id, admin, t) ==
    LET i == FirstIndex(w.Purchases, LAMBDA r : r.purchase_id = purchase_id)
        row == w.Purchases[i]
        decided == [w EXCEPT
                      !.Purchases[i].admin_action =
                          IF action = "approve" THEN "approved" ELSE "rejected",
                      !.Purchases[i].created_at = Iso(t),
                      !.Purchases[i].approved_at = IdStr(admin)]
    IN  IF i = 0 THEN w
        ELSE IF action = "approve"
        THEN ActivateAndPay(decided, purchase_id, user_id, row.product,
                            row.payment_method, row.amount_usd, t)
        ELSE decided

\* callback_admin_card_approval for the button approve_card_... or
\* reject_card_..., pressed by an admin: the header holds admin_action, so
\* the decision is left to the poller.
callback_admin_card_approval(w, action, purchase_id, user_id, purchase_idx) ==
    IF purchase_idx < 2 \/ purchase_idx > Len(w.Purchases) + 1 THEN w
    ELSE [w EXCEPT !.Purchases[purchase_idx - 1].admin_action = action]

(***************************************************************************)
(* The poller, poll_sheets_auto_process: one pass over Purchases, then     *)
(* over Withdrawals.                                                       *)
(***************************************************************************)
ContainsProcessed(notes) == notes \in {"auto_processed", "TXID [auto_processed]"}

MarkProcessed(notes) == IF notes = "" THEN "auto_processed" ELSE "TXID [auto_processed]"

AutoFill(row, status, t) ==
    [row EXCEPT !.admin_action = "", !.status = Txt(status), !.approved_at = Iso(t),
                !.approved_by = Txt("admin"), !.notes = "auto_processed"]

\* The body of the loop over Purchases for sheet row i + 1.
PollPurchaseRow(w, i, t) ==
    LET row == w.Purchases[i]
        tid == row.telegram_id
        gift == create_gift_card(w, ActualProduct(row.product), tid,
                                 w.user_states[tid].gift_message, t)
        gifted == [gift EXCEPT !.user_states[tid] = NoState,
                               !.hist[row.purchase_id].gifts = @ + 1]
        activated == ActivateAndPay(w, row.purchase_id, tid, row.product,
                                    row.payment_method, row.amount_usd, t)
    IN  IF row.admin_action = "" \/ ContainsProcessed(row.notes) THEN w
        ELSE IF row.admin_action = "approve"
        THEN [(IF IsGift(row.product) THEN gifted ELSE activated)
                 EXCEPT !.Purchases[i] = AutoFill(row, "approved", t)]
        ELSE IF row.admin_action = "reject"
        THEN [w EXCEPT !.Purchases[i] = AutoFill(row, "rejected", t)]
        ELSE w

RECURSIVE PollPurchases(_, _, _)
PollPurchases(w, i, t) ==
    IF i > Len(w.Purchases) THEN w
    ELSE PollPurchases(PollPurchaseRow(w, i, t), i + 1, t)

\* The body of the loop over Withdrawals for sheet row i + 1.
PollWithdrawalRow(w, i) ==
    LET row == w.Withdrawals[i]
        marked == [w EXCEPT !.Withdrawals[i].notes = MarkProcessed(row.notes)]
    IN  IF ContainsProcessed(row.notes) \/ row.processed_at = Empty THEN w
        ELSE IF row.status = "completed"
        THEN update_user_balance(marked, row.telegram_id, row.amount_usd, FALSE)
        ELSE IF row.status = "rejected" THEN marked
        ELSE w

RECURSIVE PollWithdrawals(_, _)
PollWithdrawals(w, i) ==
    IF i > Len(w.Withdrawals) THEN w
    ELSE PollWithdrawals(PollWithdrawalRow(w, i), i + 1)

\* The loop over Tickets: a response written in the sheet and not yet sent
\* is sent, and the row is closed.
PollTickets(w, t) ==
    [w EXCEPT !.Tickets =
        [i \in 1..Len(@) |->
            IF @[i].response = "" \/ @[i].response = "reply [sent]"
                  \/ @[i].responded_at # Empty
            THEN @[i]
            ELSE [@[i] EXCEPT !.response = "reply [sent]", !.responded_at = Iso(t),
                              !.status = "closed"]]]

\* One pass of the poller; with no purchase row the pass ends at once.
poll_sheets_auto_process(w, t) ==
    IF Len(w.Purchases) = 0 THEN w
    ELSE PollTickets(PollWithdrawals(PollPurchases(w, 1, t), 1), t)

(***************************************************************************)
(* Wallet and withdrawals.                                                 *)
(***************************************************************************)
MinWithdrawal == 100000

get_user_balance(users, tid) ==
    LET i == find_user(users, tid)
    IN  IF i = 0 THEN 0 ELSE users[i].wallet_balance

\* callback_withdraw_method: the balance read here is kept in the state.
callback_withdraw_method(w, user, method) ==
    LET balance == get_user_balance(w.Users, user)
    IN  IF balance < MinWithdrawal THEN w
        ELSE [w EXCEPT !.user_states[user] =
                 [NoState EXCEPT !.state = "awaiting_withdraw_info", !.method = method,
                                 !.balance = balance]]

\* generate_withdrawal_id: an id no earlier row has.
generate_withdrawal_id(withdrawals) == Len(withdrawals) + 1

WithdrawalRow(withdrawal_id, tid, amount, method, t) ==
    [withdrawal_id |-> withdrawal_id, telegram_id |-> tid, amount_usd |-> amount,
     method |-> method, status |-> "pending", requested_at |-> t,
     processed_at |-> Empty, processed_by |-> Empty, notes |-> ""]

\* A faulty variant of handle_withdrawal_request: the wallet is debited on request.
handle_withdrawal_request_debiting(w, user, amount, destination_ok, t) ==
    LET st == w.user_states[user]
        row == WithdrawalRow(generate_withdrawal_id(w.Withdrawals), user, amount, st.method, t)
        w1 == update_user_balance(w, user, amount, FALSE)
    IN  IF amount < MinWithdrawal THEN w
        ELSE IF amount > st.balance THEN w
        ELSE IF st.method = "usdt" /\ ~destination_ok THEN w
        ELSE [w1 EXCEPT !.Withdrawals = Append(@, row), !.user_states[user] = NoState]

\* handle_withdrawal_request for a message "<amount> <destination>" whose
\* amount parses; destination_ok says whether the destination starts with 0x
\* and has at least 20 characters.
handle_withdrawal_request(w, user, amount, destination_ok, t) ==
    LET st == w.user_states[user]
        row == WithdrawalRow(generate_withdrawal_id(w.Withdrawals), user, amount, st.method, t)
    IN  IF amount < MinWithdrawal THEN w
        ELSE IF amount > st.balance THEN w
        ELSE IF st.method = "usdt" /\ ~destination_ok THEN w
        ELSE [w EXCEPT !.Withdrawals = Append(@, row), !.user_states[user] = NoState]

process_withdrawal_approval(w, withdrawal_idx, user_id, amount, t) ==
    LET i == withdrawal_idx - 1
        w1 == [w EXCEPT !.Withdrawals[i].status = "completed",
                        !.Withdrawals[i].processed_at = Iso(t),
                        !.Withdrawals[i].processed_by = Txt("admin"),
                        !.Withdrawals[i].notes = "TXID"]
    IN  IF withdrawal_idx >= Len(w.Withdrawals) + 1 THEN w
        ELSE update_user_balance(w1, user_id, amount, FALSE)

\* callback_admin_withdrawal for the button approve_wd_... or reject_wd_...,
\* pressed by an admin.
callback_admin_withdrawal(w, action, user_id, withdrawal_idx, admin, t) ==
    LET i == withdrawal_idx - 1
        row == w.Withdrawals[i]
    IN  IF withdrawal_idx < 2 \/ withdrawal_idx > Len(w.Withdrawals) + 1 THEN w
        ELSE IF action = "approve" /\ row.method = "usdt"
        THEN [w EXCEPT !.user_states[admin] =
                 [NoState EXCEPT !.state = "awaiting_txid_for_withdrawal",
                                 !.withdrawal_idx = withdrawal_idx, !.user_id = user_id,
                                 !.amount_usd = row.amount_usd]]
        ELSE IF action = "approve"
        THEN process_withdrawal_approval(w, withdrawal_idx, user_id, row.amount_usd, t)
        ELSE [w EXCEPT !.Withdrawals[i].status = "rejected",
                       !.Withdrawals[i].processed_at = Iso(t),
                       !.Withdrawals[i].processed_by = IdStr(admin)]

\* handle_txid_for_withdrawal with a TXID of at least 20 characters.
handle_txid_for_withdrawal(w, admin, t) ==
    LET st == w.user_states[admin]
        w1 == process_withdrawal_approval(w, st.withdrawal_idx, st.user_id, st.amount_usd, t)
    IN  [w1 EXCEPT !.user_states[admin] = NoState]

(***************************************************************************)
(* Expiry timers and the startup pass.                                     *)
(***************************************************************************)
\* A faulty variant of schedule_expiry: a removal that raises ends the task,
\* the channels being taken in the order premium, normal.
schedule_expiry_stops_at_failure(w, task) ==
    LET done == [w EXCEPT !.tasks = @ (-) SetToBag({task})]
        first == IF PREMIUM_CHANNEL_ID \in task.channels THEN PREMIUM_CHANNEL_ID
                 ELSE NORMAL_CHANNEL_ID
    IN  IF first \in w.failing
        THEN [done EXCEPT !.removed = RemoveFromChannels(@, task.telegram_id, {first})]
        ELSE IF task.channels \cap w.failing # {}
        THEN [done EXCEPT !.removed = RemoveFromChannels(@, task.telegram_id, task.channels)]
        ELSE [done EXCEPT !.removed = RemoveFromChannels(@, task.telegram_id, task.channels),
                          !.Subscriptions = MarkExpired(@, task.telegram_id)]

\* schedule_expiry once its sleep is over.
schedule_expiry(w, task) ==
    [w EXCEPT !.removed = RemoveFromChannels(@, task.telegram_id, task.channels),
              !.Subscriptions = MarkExpired(@, task.telegram_id),
              !.tasks = @ (-) SetToBag({task})]

\* A faulty variant of RebuildExpire: the user is removed from the normal
\* channel only, whatever the tier, and a timer is scheduled as well.
RebuildExpire_timer_and_one_channel(w, snap, i) ==
    LET row == snap[i]
        j == FirstIndex(snap, LAMBDA r : r = row)
    IN  [w EXCEPT !.removed = RemoveFromChannels(@, row.telegram_id, {NORMAL_CHANNEL_ID}),
                  !.Subscriptions[j] = [row EXCEPT !.status = "expired"],
                  !.startup_expired = @ \cup {row.telegram_id},
                  !.tasks = @ (+) SetToBag({ExpiryTask(row.telegram_id,
                                 ChannelsOf(row.subscription_type), row.expires_at)})]

\* The branch of rebuild_subscription_schedules for a row that is past its
\* expiry: removal from the channels of its tier, and the row set to expired
\* at the position rows.index(row) gives.
RebuildExpire(w, snap, i) ==
    LET row == snap[i]
        j == FirstIndex(snap, LAMBDA r : r = row)
    IN  [w EXCEPT !.removed = RemoveFromChannels(@, row.telegram_id,
                                                 ChannelsOf(row.subscription_type)),
                  !.Subscriptions[j] = [row EXCEPT !.status = "expired"],
                  !.startup_expired = @ \cup {row.telegram_id}]

\* The timers rebuild_subscription_schedules creates for a row not yet due.
RebuildSchedule(w, row, t) ==
    LET w1 == [w EXCEPT !.tasks = @ (+) SetToBag({ExpiryTask(row.telegram_id,
                                       ChannelsOf(row.subscription_type), row.expires_at)})]
    IN  schedule_expiry_reminders(w1, row.telegram_id, row.expires_at, t)

RECURSIVE RebuildRows(_, _, _, _)
RebuildRows(w, snap, i, t) ==
    IF i > Len(snap) THEN w
    ELSE IF snap[i].status # "active" THEN RebuildRows(w, snap, i + 1, t)
    ELSE IF snap[i].expires_at <= t
    THEN RebuildRows(RebuildExpire(w, snap, i),
                     [snap EXCEPT ![i].status = "expired"], i + 1, t)
    ELSE RebuildRows(RebuildSchedule(w, snap[i], t), snap, i + 1, t)

rebuild_subscription_schedules(w, t) == RebuildRows(w, w.Subscriptions, 1, t)

(***************************************************************************)
(* Gift menu.                                                              *)
(***************************************************************************)
\* callback_buy_gift: whether the user has an approved purchase that is not a gift.
has_purchased(purchases, user) ==
    \E i \in 1..Len(purchases) :
        /\ purchases[i].telegram_id = user
        /\ purchases[i].admin_action = "approved"
        /\ ~IsGift(purchases[i].product)

callback_gift_type(w, user, product) ==
    [w EXCEPT !.user_states[user] =
        [NoState EXCEPT !.state = "awaiting_gift_message", !.gift_product = product]]

handle_gift_message(w, user, gift_message) ==
    [w EXCEPT !.user_states[user] =
        [NoState EXCEPT !.state = "awaiting_gift_payment",
                        !.gift_product = w.user_states[user].gift_product,
                        !.gift_message = gift_message]]

(***************************************************************************)
(* Boost codes.                                                            *)
(***************************************************************************)
create_boost_code(codes, code, level1_percent, level2_percent, max_uses, valid_days, by, t) ==
    IF \E i \in 1..Len(codes) : upper(codes[i].code) = upper(code) THEN codes
    ELSE Append(codes,
            [code |-> upper(code), level1_percent |-> level1_percent,
             level2_percent |-> level2_percent, max_uses |-> max_uses, used_count |-> 0,
             valid_until |-> t + valid_days, created_by |-> by, created_at |-> t,
             status |-> "active"])

\* /createboost CODE L1 L2 MAX_USES VALID_DAYS of an admin.
cmd_create_boost(w, code, level1, level2, max_uses, valid_days, admin, t) ==
    IF ~(1 <= level1 /\ level1 <= 50) THEN w
    ELSE IF ~(1 <= level2 /\ level2 <= 50) THEN w
    ELSE [w EXCEPT !.BoostCodes = create_boost_code(@, upper(code), level1, level2, max_uses,
                                                    valid_days, admin, t)]

\* A faulty variant of UsableBoost: the quota is not looked at.
UsableBoost_ignores_quota(codes, code, t) ==
    LET i == FirstIndex(codes, LAMBDA r : upper(r.code) = upper(code))
    IN  IF i = 0 THEN 0
        ELSE IF codes[i].status # "active" THEN 0
        ELSE IF codes[i].valid_until < t THEN 0
        ELSE i

\* The first BoostCodes row with the code, if it is active, not past its
\* valid_until and under its quota; 0 otherwise.
UsableBoost(codes, code, t) ==
    LET i == FirstIndex(codes, LAMBDA r : upper(r.code) = upper(code))
    IN  IF i = 0 THEN 0
        ELSE IF codes[i].status # "active" THEN 0
        ELSE IF codes[i].valid_until < t THEN 0
        ELSE IF codes[i].max_uses > 0 /\ codes[i].used_count >= codes[i].max_uses THEN 0
        ELSE i

\* The boost_data boost:<code>:<l1>:<l2>.
BoostData(code, level1_percent, level2_percent) ==
    [active |-> TRUE, code |-> code, level1 |-> level1_percent, level2 |-> level2_percent]

\* validate_and_apply_boost: None, the error already_boosted, or the rates.
validate_and_apply_boost(w, code, telegram_id, t) ==
    LET i == UsableBoost(w.BoostCodes, code, t)
        u == find_user(w.Users, telegram_id)
        counted == [w EXCEPT !.BoostCodes[i].used_count = @ + 1]
        data == BoostData(code, w.BoostCodes[i].level1_percent, w.BoostCodes[i].level2_percent)
    IN  IF i = 0 THEN [outcome |-> "none", w |-> w]
        ELSE IF u # 0 /\ w.Users[u].boost_data.active
        THEN [outcome |-> "already_boosted", w |-> w]
        ELSE [outcome |-> "applied",
              w |-> IF u = 0 THEN counted ELSE [counted EXCEPT !.Users[u].boost_data = data]]

\* /redeem <args>: no answer without a code or for a code that is refused.
cmd_redeem_secret(w, user, args, t) ==
    LET result == validate_and_apply_boost(w, upper(args), user, t)
    IN  IF args = "" THEN w
        ELSE IF result.outcome = "none" THEN w
        ELSE IF result.outcome = "already_boosted"
        THEN [w EXCEPT !.replies[user] = "already_boosted"]
        ELSE [result.w EXCEPT !.replies[user] = "boost_applied"]

(***************************************************************************)
(* The free trial of the test channel.                                     *)
(***************************************************************************)
\* The task schedule_test_removal; its sleep of 300 seconds is below the
\* resolution of the clock.
TestTimer(tid, due) == [telegram_id |-> tid, due |-> due]

\* The row handle_test_channel appends, a 13-element list as well.
TestRow(purchase_id, tid, t) ==
    PurchaseRow13(purchase_id, tid, "test", 0, "test", "test", "approved", Iso(t), Iso(t),
                  Txt("system"), Txt("5min test"))

\* The loop of handle_test_channel over the Purchases rows.
UsedTest(purchases, user) ==
    \E i \in 1..Len(purchases) :
        purchases[i].telegram_id = user /\ purchases[i].product = "test"

GrantTest(w, user, t) ==
    [w EXCEPT !.invites[TEST_CHANNEL_ID][user] = @ + 1,
              !.Purchases = Append(@, TestRow(generate_purchase_id(w.Purchases), user, t)),
              !.hist = Append(@, NoHist),
              !.replies[user] = "test_link",
              !.test_timers = @ (+) SetToBag({TestTimer(user, t)})]

\* A faulty variant of handle_test_channel: the Purchases rows are not looked at.
handle_test_channel_no_lookup(w, user, is_member, link, t) ==
    IF ~is_member THEN [w EXCEPT !.replies[user] = "join_channels"]
    ELSE IF ~link THEN [w EXCEPT !.replies[user] = "link_error"]
    ELSE GrantTest(w, user, t)

\* link: whether create_invite_link returned a link.
handle_test_channel(w, user, is_member, link, t) ==
    IF ~is_member THEN [w EXCEPT !.replies[user] = "join_channels"]
    ELSE IF UsedTest(w.Purchases, user) THEN [w EXCEPT !.replies[user] = "test_used"]
    ELSE IF ~link THEN [w EXCEPT !.replies[user] = "link_error"]
    ELSE GrantTest(w, user, t)

\* schedule_test_removal once its sleep is over.
schedule_test_removal(w, task) ==
    [w EXCEPT !.removed = RemoveFromChannels(@, task.telegram_id, {TEST_CHANNEL_ID}),
              !.test_timers = @ (-) SetToBag({task})]

(***************************************************************************)
(* /start: the gift deep link, and the registration of a new user.         *)
(***************************************************************************)
\* The argument of /start: none, a referral code, or gift_<code>.
NoArg == [kind |-> "none", n |-> 0]
RefArg(code) == [kind |-> "ref", n |-> code]
GiftArg(code) == [kind |-> "gift", n |-> code]

\* A faulty variant of redeem_gift_card: the card is left pending.
redeem_gift_card_left_pending(w, gift_code, recipient_id, t) ==
    LET g == FirstIndex(w.GiftCards, LAMBDA r : r.gift_code = gift_code)
        row == w.GiftCards[g]
        u == find_user(w.Users, recipient_id)
        w1 == [w EXCEPT !.GiftCards[g] = [row EXCEPT !.recipient_id = recipient_id,
                                                     !.redeemed_at = Iso(t)]]
        w2 == IF u # 0 /\ w1.Users[u].referred_by = 0
              THEN [w1 EXCEPT !.Users[u].referred_by = row.buyer_id]
              ELSE w1
    IN  IF g = 0 THEN [ok |-> FALSE, product |-> "", w |-> w]
        ELSE IF row.status # "pending" THEN [ok |-> FALSE, product |-> "", w |-> w]
        ELSE IF row.buyer_id = recipient_id THEN [ok |-> FALSE, product |-> "", w |-> w]
        ELSE [ok |-> TRUE, product |-> row.product, w |-> w2]

\* A faulty variant of redeem_gift_card: the buyer may redeem the card.
redeem_gift_card_by_buyer(w, gift_code, recipient_id, t) ==
    LET g == FirstIndex(w.GiftCards, LAMBDA r : r.gift_code = gift_code)
        row == w.GiftCards[g]
        u == find_user(w.Users, recipient_id)
        w1 == [w EXCEPT !.GiftCards[g] = [row EXCEPT !.recipient_id = recipient_id,
                                                     !.status = "redeemed",
                                                     !.redeemed_at = Iso(t)]]
        w2 == IF u # 0 /\ w1.Users[u].referred_by = 0
              THEN [w1 EXCEPT !.Users[u].referred_by = row.buyer_id]
              ELSE w1
    IN  IF g = 0 THEN [ok |-> FALSE, product |-> "", w |-> w]
        ELSE IF row.status # "pending" THEN [ok |-> FALSE, product |-> "", w |-> w]
        ELSE [ok |-> TRUE, product |-> row.product, w |-> w2]

\* redeem_gift_card: the result (None is ok = FALSE) and the store after it.
redeem_gift_card(w, gift_code, recipient_id, t) ==
    LET g == FirstIndex(w.GiftCards, LAMBDA r : r.gift_code = gift_code)
        row == w.GiftCards[g]
        u == find_user(w.Users, recipient_id)
        w1 == [w EXCEPT !.GiftCards[g] = [row EXCEPT !.recipient_id = recipient_id,
                                                     !.status = "redeemed",
                                                     !.redeemed_at = Iso(t)]]
        w2 == IF u # 0 /\ w1.Users[u].referred_by = 0
              THEN [w1 EXCEPT !.Users[u].referred_by = row.buyer_id]
              ELSE w1
    IN  IF g = 0 THEN [ok |-> FALSE, product |-> "", w |-> w]
        ELSE IF row.status # "pending" THEN [ok |-> FALSE, product |-> "", w |-> w]
        ELSE IF row.buyer_id = recipient_id THEN [ok |-> FALSE, product |-> "", w |-> w]
        ELSE [ok |-> TRUE, product |-> row.product, w |-> w2]

\* The referred_by of a new user: the first user whose referral code is the
\* argument, none for no argument or an unknown code.
ReferrerByCode(users, args) ==
    LET i == FirstIndex(users, LAMBDA r : r.referral_code = args.n)
    IN  IF args.kind # "ref" \/ i = 0 THEN 0 ELSE users[i].telegram_id

\* cmd_start; is_member is the answer of check_required_channels.
cmd_start(w, user, args, is_member, t) ==
    LET result == redeem_gift_card(w, args.n, user, t)
        u == find_user(w.Users, user)
        asked == [w EXCEPT !.user_states[user] = [NoState EXCEPT !.state = "awaiting_email"]]
    IN  IF args.kind = "gift"
        THEN IF result.ok
             THEN activate_subscription(result.w, user, result.product, "gift", t)
             ELSE [w EXCEPT !.replies[user] = "gift_invalid"]
        ELSE IF ~is_member THEN w
        ELSE IF u # 0
        THEN IF w.Users[u].email = "" THEN asked ELSE w
        ELSE [asked EXCEPT !.Users = Append(@, NewUser(user, ReferrerByCode(w.Users, args)))]

(***************************************************************************)
(* Who is an admin, and the support tickets an admin answers.              *)
(***************************************************************************)
is_admin_everyone(user_id) == TRUE

is_admin(user_id) == user_id \in {ADMIN_TELEGRAM_ID, ADMIN2_TELEGRAM_ID}

\* The alert a callback handler answers a caller who is no admin with.
NotAdmin(w, caller) == [w EXCEPT !.replies[caller] = "not_admin"]

\* generate_ticket_id: an id no earlier row has.
generate_ticket_id(tickets) == Len(tickets) + 1

\* handle_support_message: the ticket is appended, open and unanswered.
handle_support_message(w, user, t) ==
    [w EXCEPT !.Tickets = Append(@, [ticket_id |-> generate_ticket_id(@), telegram_id |-> user,
                                     status |-> "open", created_at |-> t, response |-> "",
                                     responded_at |-> Empty]),
              !.user_states[user] = NoState]

\* /reply TICKET_ID text: the first row with the id is answered and closed.
cmd_admin_reply(w, caller, ticket_id, t) ==
    LET i == FirstIndex(w.Tickets, LAMBDA r : r.ticket_id = ticket_id)
    IN  IF ~is_admin(caller) THEN w
        ELSE IF i = 0 THEN w
        ELSE [w EXCEPT !.Tickets[i].response = "reply", !.Tickets[i].responded_at = Iso(t),
                       !.Tickets[i].status = "closed"]

(***************************************************************************)
(* The texts a user sends to a handler that waits for one: an e-mail       *)
(* address, "<amount> <destination>" for a withdrawal, a TXID.             *)
(***************************************************************************)
EmailTexts == {"a@b.co", "A@B.CO", "a@b", "ab.co", "a@b.c", "a!@b.co"}

\* str.lower() on the texts above.
lower(text) == IF text = "A@B.CO" THEN "a@b.co" ELSE text

\* The characters of a lower-case text.
Chars(text) ==
    CASE text = "a@b.co" -> <<"a", "@", "b", ".", "c", "o">>
      [] text = "a@b" -> <<"a", "@", "b">>
      [] text = "ab.co" -> <<"a", "b", ".", "c", "o">>
      [] text = "a@b.c" -> <<"a", "@", "b", ".", "c">>
      [] text = "a!@b.co" -> <<"a", "!", "@", "b", ".", "c", "o">>
      [] OTHER -> << >>

Letters == {"a", "b", "c", "o"}
LocalChars == Letters \cup {".", "_", "%", "+", "-"}
DomainChars == Letters \cup {".", "-"}

\* is_valid_email: re.match of ^[a-zA-Z0-9._%+-]+@[a-zA-Z0-9.-]+\.[a-zA-Z]{2,}$,
\* the "@" at position i and the last dot at position j.
is_valid_email(email) ==
    LET s == Chars(email)
    IN  \E i \in 1..Len(s), j \in 1..Len(s) :
            /\ 1 < i /\ i + 1 < j /\ j + 2 <= Len(s)
            /\ s[i] = "@" /\ s[j] = "."
            /\ \A k \in 1..(i - 1) : s[k] \in LocalChars
            /\ \A k \in (i + 1)..(j - 1) : s[k] \in DomainChars
            /\ \A k \in (j + 1)..Len(s) : s[k] \in Letters

\* handle_email_input; every writer of the state awaiting_email sets attempt
\* to 1, so the branch of attempt 1 is the only one.
handle_email_input(w, user, text) ==
    LET email == lower(text)
    IN  IF ~is_valid_email(email) THEN w
        ELSE [w EXCEPT !.user_states[user] =
                 [NoState EXCEPT !.state = "awaiting_email_confirm", !.email = email]]

\* A faulty variant of create_or_update_user: the row is appended without a
\* look at the rows there are.
create_or_update_user_no_lookup(w, user, email) ==
    [w EXCEPT !.Users = Append(@, [NewUser(user, 0) EXCEPT !.email = email])]

\* create_or_update_user: the e-mail of a known user is written only where
\* the row has none; an unknown user gets a new row.
create_or_update_user(w, user, email) ==
    LET u == find_user(w.Users, user)
    IN  IF u # 0
        THEN IF email # "" /\ w.Users[u].email = ""
             THEN [w EXCEPT !.Users[u].email = email]
             ELSE w
        ELSE [w EXCEPT !.Users = Append(@, [NewUser(user, 0) EXCEPT !.email = email])]

handle_email_confirmation(w, user, text) ==
    LET email_confirm == lower(text)
        original_email == w.user_states[user].email
        u == find_user(w.Users, user)
        saved == IF u # 0 THEN [w EXCEPT !.Users[u].email = original_email]
                 ELSE create_or_update_user(w, user, original_email)
    IN  IF email_confirm # original_email
        THEN [w EXCEPT !.user_states[user] = [NoState EXCEPT !.state = "awaiting_email"]]
        ELSE [saved EXCEPT !.user_states[user] = NoState]

\* The first word of a withdrawal message: a word float() refuses, the words
\* nan and inf it accepts, or a number.
Word(kind) == [kind |-> kind, n |-> 0]
Number(n) == [kind |-> "number", n |-> n]

\* What str(float("nan")) leaves in the sheet; nothing computes with it.
NaN == 0 - 1

\* The comparisons of a float with a number: every comparison with nan is
\* false.
FloatLess(x, n) == x.kind = "number" /\ x.n < n
FloatGreater(x, n) == x.kind = "inf" \/ (x.kind = "number" /\ x.n > n)

\* handle_withdrawal_request from the text of the message: parts is the
\* length of text.split(maxsplit=1), amount its first word.
handle_withdrawal_message(w, user, msg, t) ==
    LET st == w.user_states[user]
        row == WithdrawalRow(generate_withdrawal_id(w.Withdrawals), user, NaN, st.method, t)
    IN  IF msg.parts < 2 THEN w
        ELSE IF msg.amount.kind = "word" THEN w
        ELSE IF msg.amount.kind = "number"
        THEN handle_withdrawal_request(w, user, msg.amount.n, msg.destination_ok, t)
        ELSE IF FloatLess(msg.amount, MinWithdrawal) THEN w
        ELSE IF FloatGreater(msg.amount, st.balance) THEN w
        ELSE IF st.method = "usdt" /\ ~msg.destination_ok THEN w
        ELSE [w EXCEPT !.Withdrawals = Append(@, row), !.user_states[user] = NoState]

\* The least length handle_usdt_txid and handle_txid_for_withdrawal accept.
MinTxidLen == 20

\* handle_usdt_txid from the text of the message, a TXID of txid_len
\* characters.
handle_usdt_txid_message(w, user, txid_len) ==
    IF w.user_states[user].purchase_id = 0 THEN w
    ELSE IF txid_len < MinTxidLen THEN w
    ELSE handle_usdt_txid(w, user)

(***************************************************************************)
(* The initial state: the process has just started on sheets that hold the *)
(* registered users and nothing else.                                      *)
(***************************************************************************)
Buyers == 1..NBuyers

\* Who referred whom at registration: a chain 1 <- 2 <- 3, or 1 and 2 who
\* referred each other.
ReferralMaps == {<<2, 3, 0>>, <<2, 1, 0>>}

Boost(level1, level2) == [active |-> TRUE, code |-> "BOOST", level1 |-> level1, level2 |-> level2]

InitUsers(refs, boost) ==
    [u \in UserIds |->
        [NewUser(u, IF u <= Len(refs) THEN refs[u] ELSE 0)
            EXCEPT !.boost_data = IF u = 2 THEN boost ELSE NoBoost]]

ZeroCounts == [c \in AllChannels |-> [x \in UserIds |-> 0]]

InitCommon ==
    /\ now = 0
    /\ Referrals = << >>
    /\ GiftCards = << >>
    /\ Withdrawals = << >>
    /\ user_states = [u \in StateOwners |-> NoState]
    /\ tasks = EmptyBag
    /\ rebuilt = FALSE
    /\ invites = ZeroCounts
    /\ removed = ZeroCounts
    /\ keyboards = [u \in UserIds |-> {}]
    /\ buttons = {}
    /\ last_debit = NoDebit
    /\ startup_expired = {}
    /\ BoostCodes = << >>
    /\ reminders = EmptyBag
    /\ reminded = {}
    /\ test_timers = EmptyBag
    /\ replies = [u \in UserIds |-> ""]
    /\ failing = {}
    /\ Tickets = << >>
    /\ running = {}

Init ==
    /\ InitCommon
    /\ Subscriptions = << >>
    /\ Purchases = << >>
    /\ hist = << >>
    /\ DiscountCodes = << >>
    /\ \E refs \in ReferralMaps : Users = InitUsers(refs, NoBoost)

(***************************************************************************)
(* The handlers as actions.                                                *)
(***************************************************************************)
Tick(d) ==
    /\ now + d <= MaxTime
    /\ now' = now + d
    /\ UNCHANGED <<Users, Subscriptions, Purchases, Referrals, GiftCards, Withdrawals,
                   DiscountCodes, user_states, tasks, rebuilt, invites, removed, keyboards,
                   buttons, hist, last_debit, startup_expired,
                   BoostCodes, reminders, reminded, test_timers, replies, failing, Tickets, running>>

\* The buttons pay_<method>_<product> of the buy menu, or of the gift
\* payment keyboard the user was sent.
CallbackPaymentMethod(user, method, product) ==
    /\ Len(Purchases) < MaxPurchases
    /\ IsGift(product) => product \in keyboards[user]
    /\ Commit(callback_payment_method(World, user, method, product, now))
    /\ UNCHANGED <<now, rebuilt, keyboards, buttons>>

\* The keyboard approve_card_/reject_card_<purchase_id>_<user_id>_<purchase_idx>.
CardButton(purchase_id, user_id, purchase_idx) ==
    [kind |-> "card", id |-> purchase_id, user_id |-> user_id, idx |-> purchase_idx]

\* admin_purchase_keyboard: approve_/reject_<purchase_id>_<user_id>.
admin_purchase_keyboard(purchase_id, user_id) ==
    [kind |-> "purchase", id |-> purchase_id, user_id |-> user_id, idx |-> 0]

\* The keyboard of the admin's message after the handler's edit: the edit
\* drops it, and a failed edit is swallowed and leaves it in place.
AfterEdit(b, edited) == IF edited THEN buttons \ {b} ELSE buttons

HandleCardReceipt(user) ==
    /\ user_states[user].state = "awaiting_card_receipt"
    /\ Commit(handle_card_receipt(World, user))
    /\ LET purchase_id == user_states[user].purchase_id
           i == FirstIndex(Purchases, LAMBDA r : r.purchase_id = purchase_id)
       IN  buttons' = IF i = 0 THEN buttons
                      ELSE buttons \cup {CardButton(purchase_id, user, i + 1)}
    /\ UNCHANGED <<now, rebuilt, keyboards>>

HandleUsdtTxid(user) ==
    /\ user_states[user].state = "awaiting_usdt_txid"
    /\ Commit(handle_usdt_txid(World, user))
    /\ buttons' = buttons \cup {admin_purchase_keyboard(user_states[user].purchase_id, user)}
    /\ UNCHANGED <<now, rebuilt, keyboards>>

CallbackBuyGift(user) ==
    /\ has_purchased(Purchases, user)
    /\ "gift_menu" \notin keyboards[user]
    /\ keyboards' = [keyboards EXCEPT ![user] = @ \cup {"gift_menu"}]
    /\ UNCHANGED <<now, Users, Subscriptions, Purchases, Referrals, GiftCards, Withdrawals,
                   DiscountCodes, user_states, tasks, rebuilt, invites, removed, buttons,
                   hist, last_debit, startup_expired,
                   BoostCodes, reminders, reminded, test_timers, replies, failing, Tickets, running>>

CallbackGiftType(user, product) ==
    /\ "gift_menu" \in keyboards[user]
    /\ Commit(callback_gift_type(World, user, product))
    /\ UNCHANGED <<now, rebuilt, keyboards, buttons>>

HandleGiftMessage(user, gift_message) ==
    /\ user_states[user].state = "awaiting_gift_message"
    /\ Commit(handle_gift_message(World, user, gift_message))
    /\ keyboards' = [keyboards EXCEPT
                        ![user] = @ \cup {IF user_states[user].gift_product = "normal"
                                          THEN "gift_normal" ELSE "gift_premium"}]
    /\ UNCHANGED <<now, rebuilt, buttons>>

\* The admin presses approve_<purchase_id>_<user_id> or reject_... .
CallbackAdminPurchase(action, b, edited) ==
    /\ b \in buttons
    /\ b.kind = "purchase"
    /\ hist[b.id].activations < MaxApprovals
    /\ Commit(callback_admin_purchase(World, action, b.id, b.user_id, ADMIN_TELEGRAM_ID, now))
    /\ buttons' = AfterEdit(b, edited)
    /\ UNCHANGED <<now, rebuilt, keyboards>>

\* The admin presses approve_card_... or reject_card_... .
CallbackAdminCardApproval(action, b, edited) ==
    /\ b \in buttons
    /\ b.kind = "card"
    /\ Commit(callback_admin_card_approval(World, action, b.id, b.user_id, b.idx))
    /\ buttons' = AfterEdit(b, edited)
    /\ UNCHANGED <<now, rebuilt, keyboards>>

\* One pass of the poller's loop.
PollSheets ==
    /\ Commit(poll_sheets_auto_process(World, now))
    /\ UNCHANGED <<now, rebuilt, keyboards, buttons>>

\* A schedule_expiry task wakes up.
ScheduleExpiry(task) ==
    /\ task \in BagToSet(tasks)
    /\ now >= task.due
    /\ Commit(schedule_expiry(World, task))
    /\ UNCHANGED <<now, rebuilt, keyboards, buttons>>

\* The process is restarted: the sheets stay, the dict and the tasks are gone.
Restart ==
    /\ rebuilt
    /\ rebuilt' = FALSE
    /\ tasks' = EmptyBag
    /\ user_states' = [u \in StateOwners |-> NoState]
    /\ removed' = ZeroCounts
    /\ startup_expired' = {}
    /\ reminders' = EmptyBag
    /\ test_timers' = EmptyBag
    /\ running' = {}
    /\ UNCHANGED <<now, Users, Subscriptions, Purchases, Referrals, GiftCards, Withdrawals,
                   DiscountCodes, invites, keyboards, buttons, hist, last_debit,
                   BoostCodes, reminded, replies, failing, Tickets>>

\* The startup pass, once per process.
RebuildSubscriptionSchedules ==
    /\ ~rebuilt
    /\ rebuilt' = TRUE
    /\ Commit(rebuild_subscription_schedules(World, now))
    /\ UNCHANGED <<now, keyboards, buttons>>

(***************************************************************************)
(* Purchases and their approval, by button and by the poller, for every    *)
(* product and payment method.                                             *)
(***************************************************************************)
Next ==
    \/ \E user \in Buyers, method \in PayMethods, product \in Products :
           CallbackPaymentMethod(user, method, product)
    \/ \E user \in Buyers : HandleCardReceipt(user)
    \/ \E user \in Buyers : HandleUsdtTxid(user)
    \/ \E user \in Buyers : CallbackBuyGift(user)
    \/ \E user \in Buyers, product \in {"normal", "premium"} : CallbackGiftType(user, product)
    \/ \E user \in Buyers, gift_message \in {"", "hi"} : HandleGiftMessage(user, gift_message)
    \/ \E action \in {"approve", "reject"}, b \in buttons, edited \in BOOLEAN :
           CallbackAdminPurchase(action, b, edited)
    \/ \E action \in {"approve", "reject"}, b \in buttons, edited \in BOOLEAN :
           CallbackAdminCardApproval(action, b, edited)
    \/ PollSheets

Spec == Init /\ [][Next]_vars

(***************************************************************************)
(* Subscriptions over time: card purchases of the two tiers, the poller,   *)
(* the clock, the expiry timers, restarts and the startup pass.            *)
(***************************************************************************)
NextTimers ==
    \/ \E d \in TickSteps : Tick(d)
    \/ \E user \in Buyers, product \in {"normal", "premium"} :
           CallbackPaymentMethod(user, "card", product)
    \/ \E user \in Buyers : HandleCardReceipt(user)
    \/ \E action \in {"approve", "reject"}, b \in buttons, edited \in BOOLEAN :
           CallbackAdminCardApproval(action, b, edited)
    \/ PollSheets
    \/ \E task \in BagToSet(tasks) : ScheduleExpiry(task)
    \/ Restart
    \/ RebuildSubscriptionSchedules

SpecTimers == Init /\ [][NextTimers]_vars

(***************************************************************************)
(* Wallets and withdrawals. The sheets hold one card purchase of user 3,   *)
(* processed by the poller, and wallets filled by commissions of earlier   *)
(* purchases, whose rows no withdrawal handler reads.                      *)
(***************************************************************************)
WalletAmounts == {MinWithdrawal \div 2, MinWithdrawal, 2 * MinWithdrawal}

InitBalance(u) ==
    CASE u = 1 -> 2 * MinWithdrawal
      [] u = 2 -> MinWithdrawal
      [] OTHER -> 0

ProcessedPurchase(purchase_id, tid, product, t) ==
    AutoFill([PurchaseRow13(purchase_id, tid, product, PriceOf(product), "card",
                            "", "approve", Iso(t), Empty, Empty, Empty)
                 EXCEPT !.transaction_id = "photo"], "approved", t)

InitWallet ==
    /\ InitCommon
    /\ Users = [u \in UserIds |->
                   [InitUsers(<<2, 3, 0>>, NoBoost)[u] EXCEPT !.wallet_balance = InitBalance(u)]]
    /\ Purchases = <<ProcessedPurchase(1, 3, "normal", 0)>>
    /\ hist = <<[NoHist EXCEPT !.activations = 1, !.commissions = 1, !.normal_links = 1]>>
    /\ Subscriptions = <<SubscriptionRow(3, "normal", "card", 0)>>
    /\ DiscountCodes = << >>

\* The keyboard approve_wd_/reject_wd_<withdrawal_id>_<user_id>_<withdrawal_idx>.
WithdrawalButton(withdrawal_id, user_id, withdrawal_idx) ==
    [kind |-> "withdrawal", id |-> withdrawal_id, user_id |-> user_id, idx |-> withdrawal_idx]

CallbackWithdrawMethod(user, method) ==
    /\ Commit(callback_withdraw_method(World, user, method))
    /\ UNCHANGED <<now, rebuilt, keyboards, buttons>>

\* The user's message "<amount> <destination>"; the keyboard sent to the
\* admin carries the number of the sheet's last row.
HandleWithdrawalRequest(user, amount, destination_ok) ==
    /\ user_states[user].state = "awaiting_withdraw_info"
    /\ Len(Withdrawals) < MaxWithdrawals
    /\ LET w == handle_withdrawal_request(World, user, amount, destination_ok, now)
       IN  /\ Commit(w)
           /\ buttons' = IF Len(w.Withdrawals) = Len(Withdrawals) THEN buttons
                          ELSE buttons \cup {WithdrawalButton(
                                   w.Withdrawals[Len(w.Withdrawals)].withdrawal_id, user,
                                   Len(w.Withdrawals) + 1)}
    /\ UNCHANGED <<now, rebuilt, keyboards>>

\* The admin presses approve_wd_... or reject_wd_... .
CallbackAdminWithdrawal(action, b, edited) ==
    /\ b \in buttons
    /\ b.kind = "withdrawal"
    /\ Commit(callback_admin_withdrawal(World, action, b.user_id, b.idx, ADMIN_TELEGRAM_ID, now))
    /\ buttons' = AfterEdit(b, edited)
    /\ UNCHANGED <<now, rebuilt, keyboards>>

\* The admin's message with the TXID of the payout.
HandleTxidForWithdrawal ==
    /\ user_states[ADMIN_TELEGRAM_ID].state = "awaiting_txid_for_withdrawal"
    /\ Commit(handle_txid_for_withdrawal(World, ADMIN_TELEGRAM_ID, now))
    /\ UNCHANGED <<now, rebuilt, keyboards, buttons>>

\* The admin pays a pending request by hand and records it in the sheet:
\* status and processed_at of sheet row i + 1, for the poller to act on.
SheetWithdrawalDecision(i, status) ==
    /\ i \in 1..Len(Withdrawals)
    /\ Withdrawals[i].status = "pending"
    /\ Withdrawals' = [Withdrawals EXCEPT ![i].status = status,
                                          ![i].processed_at = Iso(now)]
    /\ UNCHANGED <<now, Users, Subscriptions, Purchases, Referrals, GiftCards, DiscountCodes,
                   user_states, tasks, rebuilt, invites, removed, keyboards, buttons, hist,
                   last_debit, startup_expired,
                   BoostCodes, reminders, reminded, test_timers, replies, failing, Tickets, running>>

NextWallet ==
    \/ \E user \in Buyers, method \in PayMethods : CallbackWithdrawMethod(user, method)
    \/ \E user \in Buyers, amount \in WalletAmounts, destination_ok \in BOOLEAN :
           HandleWithdrawalRequest(user, amount, destination_ok)
    \/ \E action \in {"approve", "reject"}, b \in buttons, edited \in BOOLEAN :
           CallbackAdminWithdrawal(action, b, edited)
    \/ HandleTxidForWithdrawal
    \/ \E i \in 1..MaxWithdrawals, status \in {"completed", "rejected"} :
           SheetWithdrawalDecision(i, status)
    \/ PollSheets

SpecWallet == InitWallet /\ [][NextWallet]_vars

(***************************************************************************)
(* Discount codes: the admin's /createcode, a user's code input, the       *)
(* counting of a use, a code disabled in the sheet, and the clock.         *)
(***************************************************************************)
InitCodes ==
    /\ InitCommon
    /\ Users = InitUsers(<<2, 3, 0>>, NoBoost)
    /\ Subscriptions = << >>
    /\ Purchases = << >>
    /\ hist = << >>
    /\ DiscountCodes = << >>

\* cmd_create_discount_code with a percentage in 1..100; a negative max_uses
\* is refused.
CmdCreateDiscountCode(code, discount, max_uses, valid_days) ==
    /\ Len(DiscountCodes) < MaxCodes
    /\ DiscountCodes' = IF max_uses < 0 THEN DiscountCodes
                        ELSE create_discount_code(DiscountCodes, upper(code), discount, max_uses,
                                                  valid_days, ADMIN_TELEGRAM_ID, now)
    /\ UNCHANGED <<now, Users, Subscriptions, Purchases, Referrals, GiftCards, Withdrawals,
                   user_states, tasks, rebuilt, invites, removed, keyboards, buttons, hist,
                   last_debit, startup_expired,
                   BoostCodes, reminders, reminded, test_timers, replies, failing, Tickets, running>>

\* callback_enter_discount, then the user's message with the code.
HandleDiscountCodeInput(user, text) ==
    /\ Commit(handle_discount_code_input(World, user, text, now))
    /\ UNCHANGED <<now, rebuilt, keyboards, buttons>>

\* use_discount_code applied to a code.
UseDiscountCode(code) ==
    /\ \A i \in 1..Len(DiscountCodes) : DiscountCodes[i].used_count < MaxUses
    /\ DiscountCodes' = use_discount_code(DiscountCodes, code)
    /\ UNCHANGED <<now, Users, Subscriptions, Purchases, Referrals, GiftCards, Withdrawals,
                   user_states, tasks, rebuilt, invites, removed, keyboards, buttons, hist,
                   last_debit, startup_expired,
                   BoostCodes, reminders, reminded, test_timers, replies, failing, Tickets, running>>

\* The admin disables the code of sheet row i + 1 in the sheet.
SheetDisableCode(i) ==
    /\ i \in 1..Len(DiscountCodes)
    /\ DiscountCodes[i].status = "active"
    /\ DiscountCodes' = [DiscountCodes EXCEPT ![i].status = "inactive"]
    /\ UNCHANGED <<now, Users, Subscriptions, Purchases, Referrals, GiftCards, Withdrawals,
                   user_states, tasks, rebuilt, invites, removed, keyboards, buttons, hist,
                   last_debit, startup_expired,
                   BoostCodes, reminders, reminded, test_timers, replies, failing, Tickets, running>>

NextCodes ==
    \/ \E d \in TickSteps : Tick(d)
    \/ \E code \in CodeNames, max_uses \in -1..2, valid_days \in {-1, SubscriptionDays} :
           CmdCreateDiscountCode(code, 20, max_uses, valid_days)
    \/ \E user \in Buyers, text \in CodeNames : HandleDiscountCodeInput(user, text)
    \/ \E code \in CodeNames : UseDiscountCode(code)
    \/ \E i \in 1..MaxCodes : SheetDisableCode(i)

SpecCodes == InitCodes /\ [][NextCodes]_vars

(***************************************************************************)
(* The round trip of a card purchase: the buyer picks a tier and sends the *)
(* receipt, the admin presses the approve button, and the poller, an       *)
(* endless loop that sleeps between passes, gets to run.                   *)
(***************************************************************************)
BoostChoices == {NoBoost, Boost(15, 20)}

InitRoundTrip ==
    /\ InitCommon
    /\ \E refs \in ReferralMaps, boost \in BoostChoices : Users = InitUsers(refs, boost)
    /\ Subscriptions = << >>
    /\ Purchases = << >>
    /\ hist = << >>
    /\ DiscountCodes = << >>

NextRoundTrip ==
    \/ \E d \in TickSteps : Tick(d)
    \/ \E product \in {"normal", "premium"} : CallbackPaymentMethod(1, "card", product)
    \/ HandleCardReceipt(1)
    \/ \E b \in buttons, edited \in BOOLEAN : CallbackAdminCardApproval("approve", b, edited)
    \/ PollSheets
    \/ \E task \in BagToSet(tasks) : ScheduleExpiry(task)

\* A pass of the poller would change the store. A pass is one fixed step,
\* so this is ENABLED <<PollSheets>>_vars.
PollPending == poll_sheets_auto_process(World, now) # World

\* The poller's loop never ends: weak fairness of PollSheets, which is
\* WF_vars(PollSheets) with its ENABLED written as PollPending.
PollerKeepsRunning == []<>(~PollPending) \/ []<><<PollSheets>>_vars

SpecRoundTrip == InitRoundTrip /\ [][NextRoundTrip]_vars /\ PollerKeepsRunning

(***************************************************************************)
(* Gift redemption: user 1 has bought a subscription and then a gift card  *)
(* by card, which the poller approved; users 1 and 2 are registered, user  *)
(* 3 is not.                                                               *)
(***************************************************************************)
MaxGiftCodes == 2

\* The store of a process that has just started on empty sheets but Users.
EmptyWorld(users) ==
    [Users |-> users, Subscriptions |-> << >>, Purchases |-> << >>, Referrals |-> << >>,
     GiftCards |-> << >>, Withdrawals |-> << >>, DiscountCodes |-> << >>,
     user_states |-> [u \in StateOwners |-> NoState], tasks |-> EmptyBag,
     invites |-> ZeroCounts, removed |-> ZeroCounts, hist |-> << >>,
     last_debit |-> NoDebit, startup_expired |-> {}, BoostCodes |-> << >>,
     reminders |-> EmptyBag, reminded |-> {},
     test_timers |-> EmptyBag, replies |-> [u \in UserIds |-> ""], failing |-> {},
     Tickets |-> << >>, running |-> {}]

\* The variables hold the store w.
Holds(w) ==
    /\ Users = w.Users
    /\ Subscriptions = w.Subscriptions
    /\ Purchases = w.Purchases
    /\ Referrals = w.Referrals
    /\ GiftCards = w.GiftCards
    /\ Withdrawals = w.Withdrawals
    /\ DiscountCodes = w.DiscountCodes
    /\ user_states = w.user_states
    /\ tasks = w.tasks
    /\ invites = w.invites
    /\ removed = w.removed
    /\ hist = w.hist
    /\ last_debit = w.last_debit
    /\ startup_expired = w.startup_expired
    /\ BoostCodes = w.BoostCodes
    /\ reminders = w.reminders
    /\ reminded = w.reminded
    /\ test_timers = w.test_timers
    /\ replies = w.replies
    /\ failing = w.failing
    /\ Tickets = w.Tickets
    /\ running = w.running

\* User 1 buys the normal tier by usdt, which the admin approves by button,
\* then a gift of the tier by card, which the poller approves.
GiftBought(users, gift_product) ==
    LET w1 == callback_payment_method(EmptyWorld(users), 1, "usdt", "normal", 0)
        w2 == handle_usdt_txid(w1, 1)
        w3 == callback_admin_purchase(w2, "approve", 1, 1, ADMIN_TELEGRAM_ID, 0)
        w4 == callback_gift_type(w3, 1, gift_product)
        w5 == handle_gift_message(w4, 1, "hi")
        w6 == callback_payment_method(w5, 1, "card",
                  IF gift_product = "normal" THEN "gift_normal" ELSE "gift_premium", 0)
        w7 == handle_card_receipt(w6, 1)
        w8 == callback_admin_card_approval(w7, "approve", 2, 1, 3)
    IN  poll_sheets_auto_process(w8, 0)

InitGift ==
    /\ now = 0
    /\ rebuilt = FALSE
    /\ keyboards = [u \in UserIds |-> IF u = 1 THEN {"gift_menu"} ELSE {}]
    /\ buttons = {}
    /\ \E referred_by \in {0, 1}, gift_product \in {"normal", "premium"} :
           Holds(GiftBought(<<NewUser(1, 0), NewUser(2, referred_by)>>, gift_product))

\* /start, with or without an argument.
CmdStart(user, args, is_member) ==
    /\ Commit(cmd_start(World, user, args, is_member, now))
    /\ UNCHANGED <<now, rebuilt, keyboards, buttons>>

NextGift ==
    \/ \E d \in TickSteps : Tick(d)
    \/ \E user \in UserIds, is_member \in BOOLEAN,
          args \in {NoArg} \cup {RefArg(u) : u \in UserIds}
                           \cup {GiftArg(c) : c \in 1..MaxGiftCodes} :
           CmdStart(user, args, is_member)
    \/ \E task \in BagToSet(tasks) : ScheduleExpiry(task)

SpecGift == InitGift /\ [][NextGift]_vars

(***************************************************************************)
(* The free trial, next to usdt purchases approved by button.              *)
(***************************************************************************)
HandleTestChannel(user, is_member, link) ==
    /\ Len(Purchases) < MaxPurchases
    /\ Commit(handle_test_channel(World, user, is_member, link, now))
    /\ UNCHANGED <<now, rebuilt, keyboards, buttons>>

ScheduleTestRemoval(task) ==
    /\ task \in BagToSet(test_timers)
    /\ now >= task.due
    /\ Commit(schedule_test_removal(World, task))
    /\ UNCHANGED <<now, rebuilt, keyboards, buttons>>

NextTrial ==
    \/ \E user \in Buyers, is_member \in BOOLEAN, link \in BOOLEAN :
           HandleTestChannel(user, is_member, link)
    \/ \E task \in BagToSet(test_timers) : ScheduleTestRemoval(task)
    \/ \E user \in Buyers, product \in {"normal", "premium"} :
           CallbackPaymentMethod(user, "usdt", product)
    \/ \E user \in Buyers : HandleUsdtTxid(user)
    \/ \E action \in {"approve", "reject"}, b \in buttons, edited \in BOOLEAN :
           CallbackAdminPurchase(action, b, edited)

SpecTrial == Init /\ [][NextTrial]_vars

(***************************************************************************)
(* Renewals: card purchases of user 1 approved through the poller while an *)
(* earlier subscription of the same user is still running.                 *)
(***************************************************************************)
RenewalStep == 90

NextRenewal ==
    \/ Tick(RenewalStep)
    \/ \E product \in {"normal", "premium"} : CallbackPaymentMethod(1, "card", product)
    \/ HandleCardReceipt(1)
    \/ \E b \in buttons, edited \in BOOLEAN : CallbackAdminCardApproval("approve", b, edited)
    \/ PollSheets
    \/ \E task \in BagToSet(tasks) : ScheduleExpiry(task)
    \/ Restart
    \/ RebuildSubscriptionSchedules

SpecRenewal == Init /\ [][NextRenewal]_vars

\* The same, with the scheduling of the event loop: a timer whose sleep is
\* over runs, the startup pass runs after a start, and the clock goes on.
\* Each line is weak fairness of the step it names, with the enabling
\* condition of the step written out.
TimerDue == \E task \in BagToSet(tasks) : now >= task.due

EventLoopRuns ==
    /\ []<>(~TimerDue) \/ []<><<\E task \in BagToSet(tasks) : ScheduleExpiry(task)>>_vars
    /\ []<>rebuilt \/ []<><<RebuildSubscriptionSchedules>>_vars
    /\ []<>(now + RenewalStep > MaxTime) \/ []<><<Tick(RenewalStep)>>_vars

SpecDurable == Init /\ [][NextRenewal]_vars /\ EventLoopRuns

(***************************************************************************)
(* Checkout with a discount code: the admin's /createcode, the code input  *)
(* of user 1, the choice of a payment method, and the decision on the      *)
(* purchase by the buttons of the usdt keyboard.                           *)
(***************************************************************************)
DiscountPercents == {20, 50}

NextCheckout ==
    \/ \E code \in {"save", "vip"}, discount \in DiscountPercents, max_uses \in 0..1 :
           CmdCreateDiscountCode(code, discount, max_uses, SubscriptionDays)
    \/ \E text \in {"save", "vip"} : HandleDiscountCodeInput(1, text)
    \/ \E product \in {"normal", "premium"} : CallbackPaymentMethod(1, "usdt", product)
    \/ HandleUsdtTxid(1)
    \/ \E action \in {"approve", "reject"}, b \in buttons :
           CallbackAdminPurchase(action, b, TRUE)

SpecCheckout == InitCodes /\ [][NextCheckout]_vars

(***************************************************************************)
(* Commissions: usdt purchases approved by button, for referral chains of  *)
(* every shape three users can form and every choice of boosted users.     *)
(***************************************************************************)
CommissionMaps == {<<0, 1, 2>>, <<2, 3, 0>>, <<2, 1, 0>>, <<2, 3, 1>>}

\* The boost a boosted user holds: rates that differ from user to user.
BoostOf(u) == [active |-> TRUE, code |-> "BOOST", level1 |-> 20 + u, level2 |-> 30 + u]

InitCommission ==
    /\ InitCommon
    /\ Subscriptions = << >>
    /\ Purchases = << >>
    /\ hist = << >>
    /\ DiscountCodes = << >>
    /\ \E refs \in CommissionMaps, boosted \in SUBSET UserIds :
           Users = [u \in UserIds |->
                       [NewUser(u, refs[u])
                           EXCEPT !.boost_data = IF u \in boosted THEN BoostOf(u) ELSE NoBoost]]

NextCommission ==
    \/ \E user \in Buyers, product \in {"normal", "premium"} :
           CallbackPaymentMethod(user, "usdt", product)
    \/ \E user \in Buyers : HandleUsdtTxid(user)
    \/ \E b \in buttons : CallbackAdminPurchase("approve", b, TRUE)

SpecCommission == InitCommission /\ [][NextCommission]_vars

(***************************************************************************)
(* Boost codes: the admin's /createboost, /redeem of users 1 and 2, who    *)
(* are registered, and of user 3, who is not until their /start, a code    *)
(* disabled in the sheet, and the clock.                                   *)
(***************************************************************************)
MaxBoostCodes == 2
MaxBoostUses == 2

InitBoost ==
    /\ InitCommon
    /\ Users = <<NewUser(1, 0), NewUser(2, 1)>>
    /\ Subscriptions = << >>
    /\ Purchases = << >>
    /\ hist = << >>
    /\ DiscountCodes = << >>

CmdCreateBoost(code, level1, level2, max_uses, valid_days) ==
    /\ Len(BoostCodes) < MaxBoostCodes
    /\ Commit(cmd_create_boost(World, code, level1, level2, max_uses, valid_days,
                               ADMIN_TELEGRAM_ID, now))
    /\ UNCHANGED <<now, rebuilt, keyboards, buttons>>

CmdRedeemSecret(user, args) ==
    /\ \A i \in 1..Len(BoostCodes) : BoostCodes[i].used_count < MaxBoostUses
    /\ Commit(cmd_redeem_secret(World, user, args, now))
    /\ UNCHANGED <<now, rebuilt, keyboards, buttons>>

\* The admin disables the code of sheet row i + 1 in the sheet.
SheetDisableBoost(i) ==
    /\ i \in 1..Len(BoostCodes)
    /\ BoostCodes[i].status = "active"
    /\ BoostCodes' = [BoostCodes EXCEPT ![i].status = "inactive"]
    /\ UNCHANGED <<now, Users, Subscriptions, Purchases, Referrals, GiftCards, Withdrawals,
                   DiscountCodes, user_states, tasks, rebuilt, invites, removed, keyboards,
                   buttons, hist, last_debit, startup_expired, reminders, reminded,
                   test_timers, replies, failing, Tickets, running>>

NextBoost ==
    \/ \E d \in TickSteps : Tick(d)
    \/ \E code \in {"save", "VIP"}, level1 \in {15, 60}, max_uses \in 0..1,
          valid_days \in {SubscriptionDays, 2 * SubscriptionDays} :
           CmdCreateBoost(code, level1, 20, max_uses, valid_days)
    \/ \E user \in UserIds, args \in {"", "save", "vip"} : CmdRedeemSecret(user, args)
    \/ \E i \in 1..MaxBoostCodes : SheetDisableBoost(i)
    \/ CmdStart(3, NoArg, TRUE)

SpecBoost == InitBoost /\ [][NextBoost]_vars

(***************************************************************************)
(* Reminders: user 1 buys by card and is approved on day 0, the clock      *)
(* advances day by day and no sleep of a reminder task is overslept, and   *)
(* the process may be restarted a few days before the expiry, the startup  *)
(* pass following the start at once.                                       *)
(***************************************************************************)
ReminderHorizon == 185
RestartDays == {SubscriptionDays - 5, SubscriptionDays - 2}

\* A day passes: every sleep that is over has been acted on.
Advance ==
    /\ rebuilt
    /\ now + 1 <= ReminderHorizon
    /\ \A job \in BagToSet(reminders) : job.wake >= now + 1
    /\ Tick(1)

\* A sleep of a schedule_expiry_reminders task is over.
SendReminder(job) ==
    /\ job \in BagToSet(reminders)
    /\ now >= job.wake
    /\ Commit(send_reminder(World, job, now))
    /\ UNCHANGED <<now, rebuilt, keyboards, buttons>>

NextReminders ==
    \/ Advance
    \/ /\ now = 0
       /\ \/ \E product \in {"normal", "premium"} : CallbackPaymentMethod(1, "card", product)
          \/ HandleCardReceipt(1)
          \/ \E b \in buttons : CallbackAdminCardApproval("approve", b, TRUE)
          \/ PollSheets
    \/ \E job \in BagToSet(reminders) : SendReminder(job)
    \/ \E task \in BagToSet(tasks) : ScheduleExpiry(task)
    \/ now \in RestartDays /\ Restart
    \/ RebuildSubscriptionSchedules

SpecReminders == Init /\ [][NextReminders]_vars

(***************************************************************************)
(* Activation and expiry while calls of the Telegram API may raise: usdt   *)
(* and card purchases of user 1 for every product, approved by button or   *)
(* by the poller, the clock and the expiry timers.                         *)
(***************************************************************************)
\* create_chat_invite_link and ban_chat_member start or stop raising for
\* some channels.
TelegramFails(channels) ==
    /\ failing # channels
    /\ failing' = channels
    /\ UNCHANGED <<now, Users, Subscriptions, Purchases, Referrals, GiftCards, Withdrawals,
                   DiscountCodes, user_states, tasks, rebuilt, invites, removed, keyboards,
                   buttons, hist, last_debit, startup_expired, BoostCodes, reminders,
                   reminded, test_timers, replies, Tickets, running>>

NextLifecycle ==
    \/ \E channels \in SUBSET Channels : TelegramFails(channels)
    \/ \E d \in TickSteps : Tick(d)
    \/ \E method \in PayMethods, product \in Products : CallbackPaymentMethod(1, method, product)
    \/ HandleCardReceipt(1)
    \/ HandleUsdtTxid(1)
    \/ CallbackBuyGift(1)
    \/ \E product \in {"normal", "premium"} : CallbackGiftType(1, product)
    \/ HandleGiftMessage(1, "hi")
    \/ \E b \in buttons : CallbackAdminPurchase("approve", b, TRUE)
    \/ \E b \in buttons : CallbackAdminCardApproval("approve", b, TRUE)
    \/ PollSheets
    \/ \E task \in BagToSet(tasks) : ScheduleExpiry(task)

SpecLifecycle == Init /\ [][NextLifecycle]_vars

(***************************************************************************)
(* What user 1 types: an e-mail address after /start, a withdrawal         *)
(* request, a discount code, the TXID of a usdt purchase.                  *)
(***************************************************************************)
InitValidation ==
    /\ InitCommon
    /\ Users = [u \in UserIds |->
                   [NewUser(u, 0) EXCEPT !.wallet_balance = InitBalance(u)]]
    /\ Subscriptions = << >>
    /\ Purchases = << >>
    /\ hist = << >>
    /\ DiscountCodes = << >>

HandleEmailInput(user, text) ==
    /\ user_states[user].state = "awaiting_email"
    /\ Commit(handle_email_input(World, user, text))
    /\ UNCHANGED <<now, rebuilt, keyboards, buttons>>

HandleEmailConfirmation(user, text) ==
    /\ user_states[user].state = "awaiting_email_confirm"
    /\ Commit(handle_email_confirmation(World, user, text))
    /\ UNCHANGED <<now, rebuilt, keyboards, buttons>>

AmountTexts == {Word("word"), Word("nan"), Word("inf")} \cup {Number(n) : n \in WalletAmounts}
WithdrawalMessages == [parts : {1, 2}, amount : AmountTexts, destination_ok : BOOLEAN]

\* The user's message in the state awaiting_withdraw_info.
HandleWithdrawalMessage(user, msg) ==
    /\ user_states[user].state = "awaiting_withdraw_info"
    /\ Len(Withdrawals) < MaxWithdrawals
    /\ LET w == handle_withdrawal_message(World, user, msg, now)
       IN  /\ Commit(w)
           /\ buttons' = IF Len(w.Withdrawals) = Len(Withdrawals) THEN buttons
                          ELSE buttons \cup {WithdrawalButton(
                                   w.Withdrawals[Len(w.Withdrawals)].withdrawal_id, user,
                                   Len(w.Withdrawals) + 1)}
    /\ UNCHANGED <<now, rebuilt, keyboards>>

TxidLengths == {MinTxidLen - 1, MinTxidLen}

\* The user's message in the state awaiting_usdt_txid.
HandleUsdtTxidMessage(user, txid_len) ==
    /\ user_states[user].state = "awaiting_usdt_txid"
    /\ Commit(handle_usdt_txid_message(World, user, txid_len))
    /\ UNCHANGED <<now, rebuilt, keyboards, buttons>>

\* The codes are created and the purchases begun on day 0, and one withdrawal
\* is asked for.
NextValidation ==
    \/ \E d \in TickSteps : Tick(d)
    \/ CmdStart(1, NoArg, TRUE)
    \/ \E text \in EmailTexts : HandleEmailInput(1, text)
    \/ \E text \in EmailTexts : HandleEmailConfirmation(1, text)
    \/ \E method \in PayMethods : CallbackWithdrawMethod(1, method)
    \/ \E msg \in WithdrawalMessages : Withdrawals = << >> /\ HandleWithdrawalMessage(1, msg)
    \/ \E valid_days \in {-1, SubscriptionDays} :
           now = 0 /\ CmdCreateDiscountCode("save", 20, 1, valid_days)
    \/ \E text \in CodeNames : HandleDiscountCodeInput(1, text)
    \/ \E i \in 1..MaxCodes : SheetDisableCode(i)
    \/ now = 0 /\ CallbackPaymentMethod(1, "usdt", "normal")
    \/ \E txid_len \in TxidLengths : HandleUsdtTxidMessage(1, txid_len)

SpecValidation == InitValidation /\ [][NextValidation]_vars

(***************************************************************************)
(* The admin's handlers called by anyone: the buttons under the admin's    *)
(* messages pressed, and /reply, /createcode, /createboost and a TXID      *)
(* sent, by an admin or by a user who is none.                             *)
(***************************************************************************)
MaxTickets == 1

Callers == {1, 2, ADMIN_TELEGRAM_ID, ADMIN2_TELEGRAM_ID}

\* handle_support, then the user's message.
HandleSupport(user, is_member) ==
    /\ is_member
    /\ user_states[user].state # "awaiting_support_message"
    /\ Commit([World EXCEPT !.user_states[user] =
                  [NoState EXCEPT !.state = "awaiting_support_message"]])
    /\ UNCHANGED <<now, rebuilt, keyboards, buttons>>

HandleSupportMessage(user) ==
    /\ user_states[user].state = "awaiting_support_message"
    /\ Len(Tickets) < MaxTickets
    /\ Commit(handle_support_message(World, user, now))
    /\ UNCHANGED <<now, rebuilt, keyboards, buttons>>

\* approve_<purchase_id>_<user_id> or reject_... pressed by the caller.
AdminPurchaseCallback(caller, action, b) ==
    /\ b \in buttons
    /\ b.kind = "purchase"
    /\ hist[b.id].activations < MaxApprovals
    /\ Commit(IF is_admin(caller)
              THEN callback_admin_purchase(World, action, b.id, b.user_id, caller, now)
              ELSE NotAdmin(World, caller))
    /\ buttons' = IF is_admin(caller) THEN AfterEdit(b, TRUE) ELSE buttons
    /\ UNCHANGED <<now, rebuilt, keyboards>>

\* approve_card_... or reject_card_... pressed by the caller.
AdminCardCallback(caller, action, b) ==
    /\ b \in buttons
    /\ b.kind = "card"
    /\ Commit(IF is_admin(caller)
              THEN callback_admin_card_approval(World, action, b.id, b.user_id, b.idx)
              ELSE NotAdmin(World, caller))
    /\ buttons' = IF is_admin(caller) THEN AfterEdit(b, TRUE) ELSE buttons
    /\ UNCHANGED <<now, rebuilt, keyboards>>

\* approve_wd_... or reject_wd_... pressed by the caller.
AdminWithdrawalCallback(caller, action, b) ==
    /\ b \in buttons
    /\ b.kind = "withdrawal"
    /\ Commit(IF is_admin(caller)
              THEN callback_admin_withdrawal(World, action, b.user_id, b.idx, caller, now)
              ELSE NotAdmin(World, caller))
    /\ buttons' = IF is_admin(caller) THEN AfterEdit(b, TRUE) ELSE buttons
    /\ UNCHANGED <<now, rebuilt, keyboards>>

\* The caller's message in the state awaiting_txid_for_withdrawal.
AdminTxidMessage(caller) ==
    /\ user_states[caller].state = "awaiting_txid_for_withdrawal"
    /\ Commit(IF is_admin(caller) THEN handle_txid_for_withdrawal(World, caller, now)
              ELSE World)
    /\ UNCHANGED <<now, rebuilt, keyboards, buttons>>

\* /reply of the caller.
CmdAdminReply(caller, ticket_id) ==
    /\ Commit(cmd_admin_reply(World, caller, ticket_id, now))
    /\ UNCHANGED <<now, rebuilt, keyboards, buttons>>

\* /createcode of the caller.
CmdCreateCode(caller, code, max_uses) ==
    IF is_admin(caller) THEN CmdCreateDiscountCode(code, 20, max_uses, SubscriptionDays)
    ELSE UNCHANGED vars

\* /createboost of the caller.
CmdCreateBoostBy(caller, code) ==
    /\ Len(BoostCodes) < MaxBoostCodes
    /\ Commit(IF is_admin(caller)
              THEN cmd_create_boost(World, code, 10, 15, 1, SubscriptionDays, caller, now)
              ELSE World)
    /\ UNCHANGED <<now, rebuilt, keyboards, buttons>>

\* The admin writes the answer to the ticket of sheet row i + 1 in the sheet.
SheetTicketResponse(i) ==
    /\ i \in 1..Len(Tickets)
    /\ Tickets[i].response = ""
    /\ Tickets' = [Tickets EXCEPT ![i].response = "reply"]
    /\ UNCHANGED <<now, Users, Subscriptions, Purchases, Referrals, GiftCards, Withdrawals,
                   DiscountCodes, user_states, tasks, rebuilt, invites, removed, keyboards,
                   buttons, hist, last_debit, startup_expired, BoostCodes, reminders,
                   reminded, test_timers, replies, failing, running>>

\* User 1 buys once, asks for one withdrawal and opens a ticket; anyone calls
\* the admin's handlers.
NextAdmin ==
    \/ \E method \in PayMethods : Purchases = << >> /\ CallbackPaymentMethod(1, method, "normal")
    \/ HandleCardReceipt(1)
    \/ HandleUsdtTxid(1)
    \/ \E method \in PayMethods : CallbackWithdrawMethod(1, method)
    \/ Withdrawals = << >> /\ HandleWithdrawalRequest(1, MinWithdrawal, TRUE)
    \/ HandleSupport(1, TRUE)
    \/ HandleSupportMessage(1)
    \/ \E caller \in Callers, action \in {"approve", "reject"}, b \in buttons :
           AdminPurchaseCallback(caller, action, b)
    \/ \E caller \in Callers, action \in {"approve", "reject"}, b \in buttons :
           AdminCardCallback(caller, action, b)
    \/ \E caller \in Callers, action \in {"approve", "reject"}, b \in buttons :
           AdminWithdrawalCallback(caller, action, b)
    \/ \E caller \in Callers : AdminTxidMessage(caller)
    \/ \E caller \in Callers, ticket_id \in 1..MaxTickets : CmdAdminReply(caller, ticket_id)
    \/ \E caller \in Callers : CmdCreateCode(caller, "save", 1)
    \/ \E caller \in Callers : CmdCreateBoostBy(caller, "BOOST")
    \/ \E i \in 1..MaxTickets : SheetTicketResponse(i)
    \/ PollSheets

SpecAdmin == InitValidation /\ [][NextAdmin]_vars

(***************************************************************************)
(* Registration with the handlers of several updates in flight: a handler  *)
(* gives way to the others where it awaits the Telegram API, and nowhere   *)
(* else, the calls of the store being made without a suspension.           *)
(***************************************************************************)
MaxRunning == 2

Handler(name, user, pc, args) == [handler |-> name, user |-> user, pc |-> pc, args |-> args]

InitRegistration ==
    /\ InitCommon
    /\ Users = <<NewUser(1, 0)>>
    /\ Subscriptions = << >>
    /\ Purchases = << >>
    /\ hist = << >>
    /\ DiscountCodes = << >>

\* /start of the user arrives: the handler awaits check_required_channels.
StartBegins(user, args) ==
    /\ Cardinality(running) < MaxRunning
    /\ Handler("cmd_start", user, "check_required_channels", args) \notin running
    /\ Commit([World EXCEPT !.running =
                  @ \cup {Handler("cmd_start", user, "check_required_channels", args)}])
    /\ UNCHANGED <<now, rebuilt, keyboards, buttons>>

\* check_required_channels has answered: the rest of cmd_start up to its
\* message to the user.
StartResumes(h, is_member) ==
    /\ h \in running
    /\ h.handler = "cmd_start"
    /\ Commit([cmd_start(World, h.user, h.args, is_member, now) EXCEPT !.running = @ \ {h}])
    /\ UNCHANGED <<now, rebuilt, keyboards, buttons>>

\* The button check_membership is pressed: the handler awaits
\* check_required_channels.
MembershipBegins(user) ==
    /\ Cardinality(running) < MaxRunning
    /\ Handler("callback_check_membership", user, "check_required_channels", NoArg) \notin running
    /\ Commit([World EXCEPT !.running =
                  @ \cup {Handler("callback_check_membership", user,
                                  "check_required_channels", NoArg)}])
    /\ UNCHANGED <<now, rebuilt, keyboards, buttons>>

\* check_required_channels has answered: the handler awaits callback.answer,
\* and ends after it where the user is no member.
MembershipChecked(h, is_member) ==
    /\ h \in running
    /\ h.handler = "callback_check_membership"
    /\ h.pc = "check_required_channels"
    /\ Commit([World EXCEPT !.running =
                  (@ \ {h}) \cup (IF is_member THEN {[h EXCEPT !.pc = "answer"]} ELSE {})])
    /\ UNCHANGED <<now, rebuilt, keyboards, buttons>>

\* callback.answer has returned: create_or_update_user.
MembershipResumes(h) ==
    /\ h \in running
    /\ h.handler = "callback_check_membership"
    /\ h.pc = "answer"
    /\ Commit([create_or_update_user(World, h.user, "") EXCEPT !.running = @ \ {h}])
    /\ UNCHANGED <<now, rebuilt, keyboards, buttons>>

RegistrationArgs == {NoArg, RefArg(1)}

NextRegistration ==
    \/ \E user \in UserIds, args \in RegistrationArgs : StartBegins(user, args)
    \/ \E h \in running, is_member \in BOOLEAN : StartResumes(h, is_member)
    \/ \E user \in UserIds : MembershipBegins(user)
    \/ \E h \in running, is_member \in BOOLEAN : MembershipChecked(h, is_member)
    \/ \E h \in running : MembershipResumes(h)
    \/ \E user \in UserIds, text \in {"a@b.co", "a@b"} : HandleEmailInput(user, text)
    \/ \E user \in UserIds, text \in {"a@b.co", "ab.co"} : HandleEmailConfirmation(user, text)

SpecRegistration == InitRegistration /\ [][NextRegistration]_vars

(***************************************************************************)
(* The startup pass as a coroutine beside the handlers: it reads the       *)
(* Subscriptions sheet once, gives way at every remove_from_channel call,  *)
(* and writes the row it read back when the removals are done.             *)
(***************************************************************************)
\* The channels of a tier in the order of the list the code builds.
ChannelList(product) ==
    IF product = "premium" THEN <<PREMIUM_CHANNEL_ID, NORMAL_CHANNEL_ID>>
    ELSE <<NORMAL_CHANNEL_ID>>

\* What a suspended coroutine of this section keeps in its frame: the rows it
\* read, the row and the channel it is at, the time it read, and the
\* arguments of activate_subscription.
Frame(snap, i, c, t, product, payment_method) ==
    [snap |-> snap, i |-> i, c |-> c, t |-> t, product |-> product,
     payment_method |-> payment_method]

\* activate_subscription up to its first await of the Telegram API: the
\* Subscriptions row and the user's status are written.
activate_subscription_writes(w, tid, product, payment_method, t) ==
    LET u == find_user(w.Users, tid)
    IN  [w EXCEPT !.Subscriptions = WriteSubscription(@, tid, product, payment_method, t),
                  !.Users = IF u = 0 THEN @ ELSE [@ EXCEPT ![u].status = "active"]]

\* activate_subscription from its invite links to its end, the expiry having
\* been computed at time t0.
activate_subscription_links(w, tid, product, t0, t) ==
    LET channels == ChannelsOf(product)
        w1 == [w EXCEPT
                  !.invites = [c \in AllChannels |->
                                  [x \in UserIds |->
                                      IF x = tid /\ c \in channels THEN @[c][x] + 1
                                      ELSE @[c][x]]],
                  !.tasks = @ (+) SetToBag({ExpiryTask(tid, channels, t0 + SubscriptionDays)})]
    IN  schedule_expiry_reminders(w1, tid, t0 + SubscriptionDays, t)

\* The loop of rebuild_subscription_schedules from row i of the rows it read,
\* up to the first remove_from_channel call, where it is suspended, or to
\* the end of the rows.
RECURSIVE RebuildFrom(_, _, _, _)
RebuildFrom(w, snap, i, t) ==
    IF i > Len(snap) THEN w
    ELSE IF snap[i].status # "active" THEN RebuildFrom(w, snap, i + 1, t)
    ELSE IF snap[i].expires_at <= t
    THEN [w EXCEPT !.removed = RemoveFromChannels(@, snap[i].telegram_id,
                                    {ChannelList(snap[i].subscription_type)[1]}),
                   !.running = @ \cup {Handler("rebuild_subscription_schedules",
                                               snap[i].telegram_id, "remove_from_channel",
                                               Frame(snap, i, 1, t, "", ""))}]
    ELSE RebuildFrom(RebuildSchedule(w, snap[i], t), snap, i + 1, t)

\* rebuild_subscription_schedules when a remove_from_channel call returns:
\* the next channel's call, or the row that was read written back as
\* expired at the position rows.index(row) gives, and the loop goes on.
RebuildResume(w, h) ==
    LET a == h.args
        row == a.snap[a.i]
        channels == ChannelList(row.subscription_type)
        j == FirstIndex(a.snap, LAMBDA r : r = row)
        w0 == [w EXCEPT !.running = @ \ {h}]
    IN  IF a.c < Len(channels)
        THEN [w0 EXCEPT !.removed = RemoveFromChannels(@, row.telegram_id,
                                                       {channels[a.c + 1]}),
                        !.running = @ \cup {[h EXCEPT !.args.c = a.c + 1]}]
        ELSE RebuildFrom([w0 EXCEPT !.Subscriptions[j] = [row EXCEPT !.status = "expired"],
                                    !.startup_expired = @ \cup {row.telegram_id}],
                         [a.snap EXCEPT ![a.i].status = "expired"], a.i + 1, a.t)

InitReconcile ==
    /\ InitCommon
    /\ Users = InitUsers(<<0, 0, 0>>, NoBoost)
    /\ \E p1, p2 \in {"normal", "premium"} :
           Subscriptions = <<SubscriptionRow(1, p1, "card", 0), SubscriptionRow(2, p2, "card", 0)>>
    /\ Purchases = << >>
    /\ hist = << >>
    /\ DiscountCodes = << >>

\* The startup pass begins: it reads the sheet and runs to its first
\* remove_from_channel call.
RebuildBegins ==
    /\ ~rebuilt
    /\ rebuilt' = TRUE
    /\ Commit(RebuildFrom(World, Subscriptions, 1, now))
    /\ UNCHANGED <<now, keyboards, buttons>>

\* A remove_from_channel call of the startup pass returns.
RebuildResumes(h) ==
    /\ h \in running
    /\ h.handler = "rebuild_subscription_schedules"
    /\ Commit(RebuildResume(World, h))
    /\ UNCHANGED <<now, rebuilt, keyboards, buttons>>

\* A handler activates a subscription for a user whose row has lapsed or
\* who has none: activate_subscription writes the row and awaits the
\* invite link.
ActivationBegins(user, product) ==
    /\ \A h \in running : ~(h.handler = "activate_subscription" /\ h.user = user)
    /\ \A i \in 1..Len(Subscriptions) :
           Subscriptions[i].telegram_id = user => Subscriptions[i].expires_at <= now
    /\ Commit([activate_subscription_writes(World, user, product, "card", now)
                  EXCEPT !.running = @ \cup {Handler("activate_subscription", user,
                                                     "create_invite_link",
                                                     Frame(<< >>, 0, 0, now, product, "card"))}])
    /\ UNCHANGED <<now, rebuilt, keyboards, buttons>>

\* The invite links are made: the rest of activate_subscription.
ActivationResumes(h) ==
    /\ h \in running
    /\ h.handler = "activate_subscription"
    /\ Commit([activate_subscription_links(World, h.user, h.args.product, h.args.t, now)
                  EXCEPT !.running = @ \ {h}])
    /\ UNCHANGED <<now, rebuilt, keyboards, buttons>>

NextReconcile ==
    \/ \E d \in TickSteps : now = 0 /\ Tick(d)
    \/ RebuildBegins
    \/ \E h \in running : RebuildResumes(h)
    \/ \E user \in Buyers, product \in {"normal", "premium"} : ActivationBegins(user, product)
    \/ \E h \in running : ActivationResumes(h)
    \/ Restart

SpecReconcile == InitReconcile /\ [][NextReconcile]_vars

(***************************************************************************)
(* The free trial with several updates of a user in flight: the handler    *)
(* gives way at check_membership_for_all_messages and at                   *)
(* create_invite_link.                                                     *)
(***************************************************************************)
\* The update a handler was started for.
Update(n) == [kind |-> "update", n |-> n]

\* handle_test_channel when the membership check has answered: the scan of
\* the Purchases rows, and the call of create_invite_link.
handle_test_channel_scan(w, h, is_member) ==
    LET w0 == [w EXCEPT !.running = @ \ {h}]
    IN  IF ~is_member THEN [w0 EXCEPT !.replies[h.user] = "join_channels"]
        ELSE IF UsedTest(w.Purchases, h.user) THEN [w0 EXCEPT !.replies[h.user] = "test_used"]
        ELSE [w0 EXCEPT !.running = @ \cup {[h EXCEPT !.pc = "create_invite_link"]}]

\* handle_test_channel when create_invite_link has returned.
handle_test_channel_grant(w, h, link, t) ==
    LET w0 == [w EXCEPT !.running = @ \ {h}]
    IN  IF ~link THEN [w0 EXCEPT !.replies[h.user] = "link_error"]
        ELSE GrantTest(w0, h.user, t)

\* The user presses the test button: the handler awaits the membership check.
TestBegins(user, n) ==
    /\ \A h \in running : h.args # Update(n)
    /\ Commit([World EXCEPT !.running =
                  @ \cup {Handler("handle_test_channel", user, "check_membership", Update(n))}])
    /\ UNCHANGED <<now, rebuilt, keyboards, buttons>>

TestChecked(h, is_member) ==
    /\ h \in running
    /\ h.handler = "handle_test_channel"
    /\ h.pc = "check_membership"
    /\ Commit(handle_test_channel_scan(World, h, is_member))
    /\ UNCHANGED <<now, rebuilt, keyboards, buttons>>

TestLinked(h, link) ==
    /\ h \in running
    /\ h.handler = "handle_test_channel"
    /\ h.pc = "create_invite_link"
    /\ Len(Purchases) < MaxPurchases
    /\ Commit(handle_test_channel_grant(World, h, link, now))
    /\ UNCHANGED <<now, rebuilt, keyboards, buttons>>

NextTrialRace ==
    \/ \E user \in Buyers, n \in 1..MaxRunning : TestBegins(user, n)
    \/ \E h \in running, is_member \in BOOLEAN : TestChecked(h, is_member)
    \/ \E h \in running, link \in BOOLEAN : TestLinked(h, link)
    \/ \E task \in BagToSet(test_timers) : ScheduleTestRemoval(task)

SpecTrialRace == Init /\ [][NextTrialRace]_vars

(***************************************************************************)
(* /start gift_<code> with several updates in flight: redeem_gift_card and *)
(* the writes of activate_subscription call the store only and run without *)
(* giving way; the handler gives way at create_invite_link.                *)
(***************************************************************************)
\* cmd_start for gift_<code> up to its first await of the Telegram API.
cmd_start_gift(w, user, gift_code, t) ==
    LET result == redeem_gift_card(w, gift_code, user, t)
        w1 == activate_subscription_writes(result.w, user, result.product, "gift", t)
    IN  IF result.ok
        THEN [w1 EXCEPT !.running = @ \cup {Handler("cmd_start", user, "create_invite_link",
                                 [gift_code |-> gift_code, product |-> result.product, t |-> t])}]
        ELSE [w EXCEPT !.replies[user] = "gift_invalid"]

GiftStartBegins(user, gift_code) ==
    /\ Commit(cmd_start_gift(World, user, gift_code, now))
    /\ UNCHANGED <<now, rebuilt, keyboards, buttons>>

\* The invite links are made: the rest of activate_subscription and of cmd_start.
GiftStartResumes(h) ==
    /\ h \in running
    /\ h.handler = "cmd_start"
    /\ Commit([activate_subscription_links(World, h.user, h.args.product, h.args.t, now)
                  EXCEPT !.running = @ \ {h}])
    /\ UNCHANGED <<now, rebuilt, keyboards, buttons>>

NextGiftRace ==
    \/ \E user \in UserIds, gift_code \in 0..MaxGiftCodes : GiftStartBegins(user, gift_code)
    \/ \E h \in running : GiftStartResumes(h)
    \/ \E d \in TickSteps : Tick(d)
    \/ \E task \in BagToSet(tasks) : ScheduleExpiry(task)

SpecGiftRace == InitGift /\ [][NextGiftRace]_vars

(***************************************************************************)
(* /redeem with several updates in flight: validate_and_apply_boost calls  *)
(* the store only and runs without giving way; cmd_redeem_secret gives way *)
(* at its reply.                                                           *)
(***************************************************************************)
\* cmd_redeem_secret up to its reply: nothing is awaited where there is no
\* code or the code is refused.
cmd_redeem_secret_apply(w, user, args, t) ==
    LET result == validate_and_apply_boost(w, upper(args), user, t)
    IN  IF args = "" THEN w
        ELSE IF result.outcome = "none" THEN w
        ELSE [result.w EXCEPT !.running = @ \cup {Handler("cmd_redeem_secret", user, "reply",
                                 [code |-> upper(args), outcome |-> result.outcome])}]

\* cmd_redeem_secret's reply to the user.
cmd_redeem_secret_reply(w, h) ==
    [w EXCEPT !.replies[h.user] = IF h.args.outcome = "applied" THEN "boost_applied"
                                   ELSE "already_boosted",
              !.running = @ \ {h}]

RedeemBegins(user, args) ==
    /\ \A i \in 1..Len(BoostCodes) :
           BoostCodes[i].max_uses = 0 => BoostCodes[i].used_count < MaxBoostUses
    /\ \A h \in running : h.user # user
    /\ Commit(cmd_redeem_secret_apply(World, user, args, now))
    /\ UNCHANGED <<now, rebuilt, keyboards, buttons>>

RedeemReplied(h) ==
    /\ h \in running
    /\ h.handler = "cmd_redeem_secret"
    /\ Commit(cmd_redeem_secret_reply(World, h))
    /\ UNCHANGED <<now, rebuilt, keyboards, buttons>>

NextBoostRace ==
    \/ \E code \in {"save", "VIP"}, max_uses \in 0..MaxBoostUses :
           now = 0 /\ CmdCreateBoost(code, 15, 20, max_uses, SubscriptionDays)
    \/ \E user \in UserIds, args \in {"", "save", "vip"} : RedeemBegins(user, args)
    \/ \E h \in running : RedeemReplied(h)
    \/ \E d \in TickSteps : Tick(d)
    \/ running = {} /\ CmdStart(3, NoArg, TRUE)

SpecBoostRace == InitBoost /\ [][NextBoostRace]_vars

(***************************************************************************)
(* Store calls that fail: update_row logs the exception and returns False, *)
(* get_all_rows logs it and returns the empty list, and the callers go on. *)
(***************************************************************************)
\* get_all_rows when the store raises.
FailedRead == << >>

\* The body of the poller's loop over Purchases for sheet row i + 1 when the
\* update_row that ends it returns False: what was done for the row stays,
\* the row is not written.
PollPurchaseRowUnwritten(w, i, t) ==
    [PollPurchaseRow(w, i, t) EXCEPT !.Purchases[i] = w.Purchases[i]]

\* The loop over Purchases, update_row failing for the rows of bad.
RECURSIVE PollPurchasesFailing(_, _, _, _)
PollPurchasesFailing(w, i, t, bad) ==
    IF i > Len(w.Purchases) THEN w
    ELSE PollPurchasesFailing(IF i \in bad THEN PollPurchaseRowUnwritten(w, i, t)
                              ELSE PollPurchaseRow(w, i, t), i + 1, t, bad)

\* handle_test_channel when its get_all_rows("Purchases") fails.
handle_test_channel_unread(w, user, is_member, link, t) ==
    IF ~is_member THEN [w EXCEPT !.replies[user] = "join_channels"]
    ELSE IF UsedTest(FailedRead, user) THEN [w EXCEPT !.replies[user] = "test_used"]
    ELSE IF ~link THEN [w EXCEPT !.replies[user] = "link_error"]
    ELSE GrantTest(w, user, t)

\* One pass of the poller in which update_row of Purchases fails for the
\* rows of bad.
PollSheetsWriteFails(bad) ==
    /\ bad # {}
    /\ Len(Purchases) > 0
    /\ \A i \in bad : i <= Len(Purchases) /\ hist[Purchases[i].purchase_id].activations < MaxApprovals
    /\ Commit(PollTickets(PollWithdrawals(PollPurchasesFailing(World, 1, now, bad), 1), now))
    /\ UNCHANGED <<now, rebuilt, keyboards, buttons>>

\* One pass of the poller in which get_all_rows("Subscriptions") fails:
\* every activate_subscription of the pass finds no row and appends one.
PollSheetsSubscriptionsUnread ==
    /\ \A i \in 1..Len(Purchases) : hist[Purchases[i].purchase_id].activations < MaxApprovals
    /\ LET w == poll_sheets_auto_process([World EXCEPT !.Subscriptions = FailedRead], now)
       IN  Commit([w EXCEPT !.Subscriptions = Subscriptions \o @])
    /\ UNCHANGED <<now, rebuilt, keyboards, buttons>>

HandleTestChannelUnread(user, is_member, link) ==
    /\ Cardinality({i \in 1..Len(Purchases) : Purchases[i].product = "test"}) < MaxApprovals
    /\ Commit(handle_test_channel_unread(World, user, is_member, link, now))
    /\ UNCHANGED <<now, rebuilt, keyboards, buttons>>

NextStoreFailure ==
    \/ \E user \in Buyers, product \in {"normal", "premium"} :
           CallbackPaymentMethod(user, "card", product)
    \/ \E user \in Buyers : HandleCardReceipt(user)
    \/ \E action \in {"approve", "reject"}, b \in buttons :
           CallbackAdminCardApproval(action, b, TRUE)
    \/ PollSheets
    \/ \E bad \in SUBSET (1..MaxPurchases) : PollSheetsWriteFails(bad)
    \/ PollSheetsSubscriptionsUnread
    \/ \E user \in Buyers, is_member \in BOOLEAN, link \in BOOLEAN :
           HandleTestChannel(user, is_member, link)
    \/ \E user \in Buyers, is_member \in BOOLEAN, link \in BOOLEAN :
           HandleTestChannelUnread(user, is_member, link)

SpecStoreFailure == Init /\ [][NextStoreFailure]_vars

(***************************************************************************)
(* The purchase of a gift by user 1, who has an approved purchase, from    *)
(* the gift message to the minted card and its redemption.                 *)
(***************************************************************************)
GiftTexts == {"", "hi", "yo"}

\* The reply of handle_gift_message, which shows the message to the buyer;
\* /skip gives the empty message.
GiftPrompt(gift_message) ==
    CASE gift_message = "hi" -> "gift_prompt_hi"
      [] gift_message = "yo" -> "gift_prompt_yo"
      [] OTHER -> "gift_prompt_none"

\* User 1 bought normal by usdt and the admin pressed approve.
FirstPurchase(users) ==
    LET w1 == callback_payment_method(EmptyWorld(users), 1, "usdt", "normal", 0)
        w2 == handle_usdt_txid(w1, 1)
    IN  callback_admin_purchase(w2, "approve", 1, 1, ADMIN_TELEGRAM_ID, 0)

InitGiftMessage ==
    /\ now = 0
    /\ rebuilt = FALSE
    /\ keyboards = [u \in UserIds |-> {}]
    /\ buttons = {}
    /\ Holds(FirstPurchase(InitUsers(<<2, 3, 0>>, NoBoost)))

\* handle_gift_message with its reply; the buyer enters one message.
HandleGiftMessageShown(user, gift_message) ==
    /\ user_states[user].state = "awaiting_gift_message"
    /\ replies[user] = ""
    /\ Commit([handle_gift_message(World, user, gift_message)
                  EXCEPT !.replies[user] = GiftPrompt(gift_message)])
    /\ keyboards' = [keyboards EXCEPT
                        ![user] = @ \cup {IF user_states[user].gift_product = "normal"
                                          THEN "gift_normal" ELSE "gift_premium"}]
    /\ UNCHANGED <<now, rebuilt, buttons>>

NextGiftMessage ==
    \/ \E user \in Buyers : CallbackBuyGift(user)
    \/ \E user \in Buyers, product \in {"normal", "premium"} : CallbackGiftType(user, product)
    \/ \E user \in Buyers, gift_message \in GiftTexts : HandleGiftMessageShown(user, gift_message)
    \/ \E user \in Buyers, method \in PayMethods, product \in {"gift_normal", "gift_premium"} :
           CallbackPaymentMethod(user, method, product)
    \/ \E user \in Buyers : HandleCardReceipt(user)
    \/ \E user \in Buyers : HandleUsdtTxid(user)
    \/ \E action \in {"approve", "reject"}, b \in buttons, edited \in BOOLEAN :
           CallbackAdminPurchase(action, b, edited)
    \/ \E action \in {"approve", "reject"}, b \in buttons, edited \in BOOLEAN :
           CallbackAdminCardApproval(action, b, edited)
    \/ PollSheets
    \/ \E user \in UserIds \ {1}, c \in 1..MaxGiftCodes : CmdStart(user, GiftArg(c), TRUE)

SpecGiftMessage == InitGiftMessage /\ [][NextGiftMessage]_vars

(***************************************************************************)
(* The gift menu next to the free trial and to purchases of the two tiers  *)
(* by card, approved through the poller, and by usdt, approved by button.  *)
(***************************************************************************)
NextEligibility ==
    \/ \E user \in Buyers, is_member \in BOOLEAN, link \in BOOLEAN :
           HandleTestChannel(user, is_member, link)
    \/ \E user \in Buyers, method \in PayMethods, product \in {"normal", "premium"} :
           CallbackPaymentMethod(user, method, product)
    \/ \E user \in Buyers : HandleCardReceipt(user)
    \/ \E user \in Buyers : HandleUsdtTxid(user)
    \/ \E action \in {"approve", "reject"}, b \in buttons, edited \in BOOLEAN :
           CallbackAdminPurchase(action, b, edited)
    \/ \E action \in {"approve", "reject"}, b \in buttons, edited \in BOOLEAN :
           CallbackAdminCardApproval(action, b, edited)
    \/ PollSheets
    \/ \E user \in Buyers : CallbackBuyGift(user)

SpecEligibility == Init /\ [][NextEligibility]_vars

(***************************************************************************)
(* Properties.                                                             *)
(***************************************************************************)
RowsOf(rows, tid) == {i \in 1..Len(rows) : rows[i].telegram_id = tid}

\* The purchases for which activate_subscription runs in the step.
ActivatedInStep == {p \in 1..Len(hist) : hist'[p].activations > hist[p].activations}

OneRowPerUser == \A u \in UserIds : Cardinality(RowsOf(Subscriptions, u)) <= 1

RowsStayInPlace ==
    /\ Len(Subscriptions') >= Len(Subscriptions)
    /\ \A i \in 1..Len(Subscriptions) :
           Subscriptions'[i].telegram_id = Subscriptions[i].telegram_id

ActivationOverwrites ==
    \A p \in ActivatedInStep :
        LET u == Purchases[p].telegram_id
        IN  \E i \in RowsOf(Subscriptions', u) :
               /\ Subscriptions'[i].status = "active"
               /\ Subscriptions'[i].activated_at = now
               /\ Subscriptions'[i].expires_at = now + SubscriptionDays
               /\ \E q \in ActivatedInStep :
                      /\ Purchases[q].telegram_id = u
                      /\ Subscriptions'[i].subscription_type = Purchases[q].product
                      /\ Subscriptions'[i].payment_method = Purchases[q].payment_method

Decided(row) ==
    \/ row.admin_action \in {"approved", "rejected"}
    \/ row.status \in {Txt("approved"), Txt("rejected")}

Decision(row) ==
    IF row.admin_action \in {"approved", "rejected"} THEN row.admin_action ELSE row.status.s

Approved(row) == Decided(row) /\ Decision(row) = "approved"

\* C2: a purchase is decided at most once: it is activated at most once, its
\* commission is paid at most once, and no step changes a recorded decision.
C2_DecidedAtMostOnce ==
    /\ [](\A p \in 1..Len(hist) : hist[p].activations <= 1 /\ hist[p].commissions <= 1)
    /\ [][\A i \in 1..Len(Purchases) :
             Decided(Purchases[i]) =>
                 Decided(Purchases'[i]) /\ Decision(Purchases'[i]) = Decision(Purchases[i])]_vars

\* C2, its case: a purchase approved by button and activated once.
C2_Witness ==
    \E p \in 1..Len(Purchases) :
        Purchases[p].admin_action = "approved" /\ hist[p].activations = 1

ReferralRowsOf(purchase_id, level) ==
    {r \in 1..Len(Referrals) :
        Referrals[r].purchase_id = purchase_id /\ Referrals[r].level = level}

\* C3: a purchase has at most one Referrals row per level, and a level-2 row
\* only if the level-1 referrer has a referred_by that is not the buyer.
C3_AtMostOneRowPerLevel ==
    \A p \in 1..Len(Purchases) :
        /\ Cardinality(ReferralRowsOf(p, 1)) <= 1
        /\ Cardinality(ReferralRowsOf(p, 2)) <= 1
        /\ \A r \in ReferralRowsOf(p, 2) :
               LET buyer == Purchases[p].telegram_id
                   referrer == Users[find_user(Users, buyer)].referred_by
                   second == Users[find_user(Users, referrer)].referred_by
               IN  second # 0 /\ second # buyer /\ Referrals[r].referrer_id = second

\* C3, its case: a purchase with a level-1 and a level-2 row.
C3_Witness ==
    \E p \in 1..Len(Purchases) : ReferralRowsOf(p, 1) # {} /\ ReferralRowsOf(p, 2) # {}

ApprovedGiftPurchases(user) ==
    {p \in 1..Len(Purchases) :
        /\ Purchases[p].telegram_id = user
        /\ IsGift(Purchases[p].product)
        /\ Approved(Purchases[p])}

PendingGiftCards(user) ==
    {g \in 1..Len(GiftCards) :
        GiftCards[g].buyer_id = user /\ GiftCards[g].status = "pending"}

\* C10: every approved gift purchase, whatever the payment method and the
\* way it was approved, made exactly one pending GiftCards row of its buyer
\* and no activation of a subscription for the buyer.
C10_ApprovedGiftMakesOneCard ==
    /\ \A p \in 1..Len(Purchases) :
           IsGift(Purchases[p].product) /\ Approved(Purchases[p]) =>
               hist[p].gifts = 1 /\ hist[p].activations = 0
    /\ \A u \in UserIds :
           Cardinality(PendingGiftCards(u)) = Cardinality(ApprovedGiftPurchases(u))

\* C10, its case: a gift purchase paid by card and approved by the poller.
C10_Witness ==
    \E p \in 1..Len(Purchases) :
        /\ IsGift(Purchases[p].product)
        /\ Purchases[p].payment_method = "card"
        /\ Approved(Purchases[p])
        /\ hist[p].gifts = 1

TierChannels(subscription_type) ==
    IF subscription_type = "premium" THEN {PREMIUM_CHANNEL_ID, NORMAL_CHANNEL_ID}
    ELSE {NORMAL_CHANNEL_ID}

TasksOf(bag, tid) == {task \in BagToSet(bag) : task.telegram_id = tid}

\* C7: the startup pass sets every active row whose expires_at is not after
\* the clock to expired, calls remove_from_channel exactly once for each
\* channel of the row's tier and for no other channel, and schedules no
\* timer for the row's user.
C7_StartupExpiresOverdueRows ==
    [][(~rebuilt /\ rebuilt') =>
          \A i \in 1..Len(Subscriptions) :
              LET row == Subscriptions[i]
                  u == row.telegram_id
              IN  (row.status = "active" /\ row.expires_at <= now) =>
                      /\ Subscriptions'[i] = [row EXCEPT !.status = "expired"]
                      /\ \A c \in Channels :
                             removed'[c][u] = removed[c][u] +
                                 (IF c \in TierChannels(row.subscription_type) THEN 1 ELSE 0)
                      /\ TasksOf(tasks', u) = TasksOf(tasks, u)
                      /\ \A task \in TasksOf(tasks, u) :
                             CopiesIn(task, tasks') = CopiesIn(task, tasks)]_vars

\* C7, its case: after a restart, the startup pass found a premium row past
\* its expiry.
C7_Witness ==
    /\ rebuilt
    /\ \E i \in 1..Len(Subscriptions) :
           /\ Subscriptions[i].telegram_id \in startup_expired
           /\ Subscriptions[i].subscription_type = "premium"
           /\ Subscriptions[i].status = "expired"
           /\ Subscriptions[i].expires_at <= now
           /\ removed[PREMIUM_CHANNEL_ID][Subscriptions[i].telegram_id] = 1
           /\ removed[NORMAL_CHANNEL_ID][Subscriptions[i].telegram_id] = 1
           /\ TasksOf(tasks, Subscriptions[i].telegram_id) = {}

\* C4: no wallet is ever negative, and a debit larger than the wallet leaves
\* exactly 0 (a smaller one leaves the difference).
C4_WalletNeverNegative ==
    /\ \A i \in 1..Len(Users) : Users[i].wallet_balance >= 0
    /\ last_debit.amount > last_debit.before => last_debit.after = 0
    /\ last_debit.amount <= last_debit.before =>
           last_debit.after = last_debit.before - last_debit.amount

\* C4, its case: a debit larger than a wallet that was not empty.
C4_Witness ==
    /\ last_debit.before > 0
    /\ last_debit.amount > last_debit.before
    /\ get_user_balance(Users, last_debit.telegram_id) = 0

\* C5: a step that appends a Withdrawals row appends a pending row whose
\* amount is at least the minimum and at most the requester's
\* wallet_balance in Users at that moment.
C5_RequestWithinStoredBalance ==
    [][Len(Withdrawals') > Len(Withdrawals) =>
          LET row == Withdrawals'[Len(Withdrawals')]
          IN  /\ Len(Withdrawals') = Len(Withdrawals) + 1
              /\ row.status = "pending"
              /\ row.amount_usd >= MinWithdrawal
              /\ row.amount_usd <= get_user_balance(Users, row.telegram_id)]_vars

\* C5, its case: a request within the stored balance was appended.
C5_Witness ==
    \E i \in 1..Len(Withdrawals) :
        /\ Withdrawals[i].status = "pending"
        /\ Withdrawals[i].amount_usd <= get_user_balance(Users, Withdrawals[i].telegram_id)

\* A step that completes a withdrawal of the user: the in-chat approval
\* writes the row, the poller marks the completed row as processed.
CompletionStep(tid) ==
    \E i \in 1..Len(Withdrawals) :
        /\ Withdrawals'[i].telegram_id = tid
        /\ Withdrawals'[i].status = "completed"
        /\ Withdrawals'[i].processed_at # Empty
        /\ \/ Withdrawals'[i].notes = "TXID"
           \/ ContainsProcessed(Withdrawals'[i].notes) /\ ~ContainsProcessed(Withdrawals[i].notes)

\* C6: a step that appends a withdrawal request leaves Users as it is, and a
\* wallet goes down only in a step that completes a withdrawal of its user.
C6_RequestLeavesWallets ==
    [][/\ Len(Withdrawals') > Len(Withdrawals) => Users' = Users
       /\ \A i \in 1..Len(Users) :
              Users'[i].wallet_balance < Users[i].wallet_balance =>
                  CompletionStep(Users[i].telegram_id)]_vars

\* C6, its case: a pending request beside a completed one that was debited.
C6_Witness ==
    /\ Len(Withdrawals) = 2
    /\ Withdrawals[1].status = "completed"
    /\ last_debit.telegram_id = Withdrawals[1].telegram_id
    /\ Withdrawals[2].status = "pending"
    /\ Withdrawals[2].telegram_id = Withdrawals[1].telegram_id

\* The row validate_discount_code looks at: the first whose code matches
\* without regard to case, 0 if there is none.
MatchingRow(codes, code) == FirstIndex(codes, LAMBDA r : upper(r.code) = upper(code))

Validates(codes, code, t) ==
    LET i == MatchingRow(codes, code)
    IN  /\ i # 0
        /\ codes[i].status = "active"
        /\ codes[i].valid_until >= t
        /\ codes[i].max_uses = 0 \/ codes[i].used_count < codes[i].max_uses

\* C8: a code validates exactly when the first row that matches it without
\* regard to case is active, its valid_until is not past, and its max_uses
\* is 0 or above its used_count; a code with max_uses 1 and used_count 0
\* that validates does not validate after one use_discount_code, nor later.
C8_ValidatesIffUsable ==
    /\ [](\A code \in CodeNames :
             /\ validate_discount_code(DiscountCodes, code, now).ok
                    <=> Validates(DiscountCodes, code, now)
             /\ LET i == MatchingRow(DiscountCodes, code)
                IN  (/\ Validates(DiscountCodes, code, now)
                     /\ DiscountCodes[i].max_uses = 1
                     /\ DiscountCodes[i].used_count = 0)
                    => ~validate_discount_code(use_discount_code(DiscountCodes, code),
                                               code, now).ok)
    /\ [][/\ \A user \in Buyers, text \in CodeNames :
                HandleDiscountCodeInput(user, text) =>
                    (user_states'[user].state = "discount_validated"
                         <=> Validates(DiscountCodes, text, now))
          /\ \A i \in 1..Len(DiscountCodes) :
                (DiscountCodes[i].max_uses = 1 /\ DiscountCodes[i].used_count >= 1) =>
                    /\ DiscountCodes'[i].max_uses = 1
                    /\ DiscountCodes'[i].used_count >= 1
                    /\ ~validate_discount_code(DiscountCodes', DiscountCodes[i].code, now').ok]_vars

\* C8, its case: a single-use code that a user validated and that was then
\* used once, still active and not past its valid_until.
C8_Witness ==
    \E i \in 1..Len(DiscountCodes) :
        /\ DiscountCodes[i].max_uses = 1
        /\ DiscountCodes[i].used_count = 1
        /\ DiscountCodes[i].status = "active"
        /\ DiscountCodes[i].valid_until >= now
        /\ \E user \in Buyers : user_states[user].discount_code = DiscountCodes[i].code

RECURSIVE CommissionsOf(_, _)
\* The sum of the commissions of the Referrals rows of a referrer.
CommissionsOf(rows, referrer_id) ==
    IF rows = << >> THEN 0
    ELSE (IF rows[1].referrer_id = referrer_id THEN rows[1].commission_usd ELSE 0)
             + CommissionsOf(Tail(rows), referrer_id)

ReferrerOf(tid) == Users[find_user(Users, tid)].referred_by

\* The receipt of a normal card purchase is in, approve was pressed, and
\* the poller has not come to the row yet.
ApprovePressed(p) ==
    /\ p \in 1..Len(Purchases)
    /\ ~ContainsProcessed(Purchases[p].notes)
    /\ Purchases[p].product = "normal"
    /\ Purchases[p].payment_method = "card"
    /\ Purchases[p].transaction_id = "photo"
    /\ Purchases[p].admin_action = "approve"

\* The purchase went through: the buyer's subscription is active for 180
\* days from the activation, one link of the normal channel and none of the
\* premium channel was sent for it, and its referrer has one level-1 row.
RoundTripDone(p) ==
    /\ p \in 1..Len(Purchases)
    /\ Purchases[p].status = Txt("approved")
    /\ hist[p].activations = 1
    /\ hist[p].normal_links = 1
    /\ hist[p].premium_links = 0
    /\ \E i \in RowsOf(Subscriptions, Purchases[p].telegram_id) :
           /\ Subscriptions[i].status = "active"
           /\ Iso(Subscriptions[i].activated_at) = Purchases[p].approved_at
           /\ Subscriptions[i].expires_at = Subscriptions[i].activated_at + SubscriptionDays
    /\ ReferrerOf(Purchases[p].telegram_id) # 0 => Cardinality(ReferralRowsOf(p, 1)) = 1

\* The level-1 rows of the purchase: at most one, of 8 percent of the amount
\* or of the referrer's boost rate, and every wallet is the sum of its rows.
CommissionOnce(p) ==
    /\ hist[p].activations <= 1
    /\ Cardinality(ReferralRowsOf(p, 1)) <= 1
    /\ \A r \in ReferralRowsOf(p, 1) :
           LET referrer == ReferrerOf(Purchases[p].telegram_id)
               boost == Users[find_user(Users, referrer)].boost_data
               percent == IF boost.active THEN boost.level1 ELSE 8
           IN  /\ Referrals[r].referrer_id = referrer
               /\ Referrals[r].commission_usd * 100 = Purchases[p].amount_usd * percent
    /\ \A i \in 1..Len(Users) :
           Users[i].wallet_balance = CommissionsOf(Referrals, Users[i].telegram_id)

\* C9: once the receipt of a normal card purchase is in and approve_card_
\* was pressed, the poller eventually activates the buyer's subscription
\* for 180 days, with one invite link of the normal channel, and the
\* referrer is credited 8 percent of amount_usd, or the boost rate, once.
C9_CardRoundTrip ==
    /\ \A p \in 1..MaxPurchases : ApprovePressed(p) ~> RoundTripDone(p)
    /\ [](\A p \in 1..Len(Purchases) : CommissionOnce(p))

\* C9, its case: a round trip done for a buyer whose referrer has a boost.
C9_Witness ==
    \E p \in 1..Len(Purchases) :
        /\ Purchases[p].product = "normal"
        /\ RoundTripDone(p)
        /\ \E r \in ReferralRowsOf(p, 1) :
               Referrals[r].commission_usd * 100 = Purchases[p].amount_usd * 15

\* The step is user's /start gift_<code> for the pending card g of another user.
RedeemStep(user, g) ==
    /\ GiftCards[g].status = "pending"
    /\ GiftCards[g].buyer_id # user
    /\ \E is_member \in BOOLEAN : CmdStart(user, GiftArg(GiftCards[g].gift_code), is_member)

\* The referred_by of a user, 0 for none and for a user without a Users row.
ReferredBy(users, tid) ==
    IF find_user(users, tid) = 0 THEN 0 ELSE users[find_user(users, tid)].referred_by

\* C11: /start gift_<code> of a user other than the buyer for a pending
\* card makes the card redeemed, with the user as recipient and redeemed_at
\* the time of the step, and makes the user's Subscriptions row active with
\* the card's product, with one invite link per channel of that tier.
C11_RedeemActivates ==
    [][\A user \in UserIds, g \in 1..Len(GiftCards) :
          RedeemStep(user, g) =>
              /\ GiftCards' = [GiftCards EXCEPT ![g].status = "redeemed",
                                                ![g].recipient_id = user,
                                                ![g].redeemed_at = Iso(now)]
              /\ \E i \in RowsOf(Subscriptions', user) :
                     /\ Subscriptions'[i] =
                            SubscriptionRow(user, GiftCards[g].product, "gift", now)
                     /\ GiftCards[g].product \in {"normal", "premium"}
              /\ \A c \in Channels :
                     invites'[c][user] = invites[c][user] +
                         (IF c \in TierChannels(GiftCards[g].product) THEN 1 ELSE 0)]_vars

\* C11, its case: user 2 redeemed a premium card and has both links.
C11_Witness ==
    \E g \in 1..Len(GiftCards) :
        /\ GiftCards[g].status = "redeemed"
        /\ GiftCards[g].product = "premium"
        /\ GiftCards[g].recipient_id = 2
        /\ invites[PREMIUM_CHANNEL_ID][2] = 1
        /\ invites[NORMAL_CHANNEL_ID][2] = 1
        /\ \E i \in RowsOf(Subscriptions, 2) : Subscriptions[i].subscription_type = "premium"

\* C12: a redemption by a user without a referrer makes the card's buyer
\* the user's referred_by, also for a user whose Users row is written
\* later; a referred_by that is set is never changed.
C12_RedeemerReferredByBuyer ==
    /\ [](\A g \in 1..Len(GiftCards) :
             (/\ GiftCards[g].status = "redeemed"
              /\ find_user(Users, GiftCards[g].recipient_id) # 0)
                 => ReferredBy(Users, GiftCards[g].recipient_id) # 0)
    /\ [][/\ \A user \in UserIds, g \in 1..Len(GiftCards) :
                (RedeemStep(user, g) /\ find_user(Users, user) # 0) =>
                    ReferredBy(Users', user) =
                        (IF ReferredBy(Users, user) = 0 THEN GiftCards[g].buyer_id
                         ELSE ReferredBy(Users, user))
          /\ \A user \in UserIds :
                ReferredBy(Users, user) # 0 => ReferredBy(Users', user) = ReferredBy(Users, user)]_vars

\* C12, its case: a registered user without a referrer redeemed a card and
\* is referred by its buyer.
C12_Witness ==
    \E g \in 1..Len(GiftCards) :
        /\ GiftCards[g].status = "redeemed"
        /\ ReferredBy(Users, GiftCards[g].recipient_id) = GiftCards[g].buyer_id


\* C13: a free-trial request of a user who already has a Purchases row with
\* product test creates no invite link for the test channel, appends no
\* Purchases row and schedules no test-removal timer.
C13_TrialOnlyOnce ==
    [][\A user \in UserIds, is_member \in BOOLEAN, link \in BOOLEAN :
          (UsedTest(Purchases, user) /\ HandleTestChannel(user, is_member, link))
              => /\ invites' = invites
                 /\ Purchases' = Purchases
                 /\ test_timers' = test_timers]_vars

\* User 1 asked for the trial twice: the first request was granted, the
\* second was answered with the refusal.
C13_Witness ==
    /\ replies[1] = "test_used"
    /\ invites[TEST_CHANNEL_ID][1] = 1
    /\ Cardinality({i \in 1..Len(Purchases) :
                        Purchases[i].telegram_id = 1 /\ Purchases[i].product = "test"}) = 1
    /\ Len(Purchases) < MaxPurchases


\* The pending expiry timers of a user, with their multiplicity.
PendingTimers(tid) ==
    LET mine == {task \in BagToSet(tasks) : task.telegram_id = tid}
        RECURSIVE Sum(_)
        Sum(S) == IF S = {} THEN 0
                  ELSE LET task == CHOOSE x \in S : TRUE
                       IN  CopiesIn(task, tasks) + Sum(S \ {task})
    IN  Sum(mine)

\* C14: at any time at most one removal timer is pending per user, and a
\* timer that fires (removing the user from the channels and setting the
\* Subscriptions row to expired) never does so before the expires_at the
\* user's row holds at that moment.
C14_RenewalReplacesTimer ==
    /\ [](\A tid \in UserIds : PendingTimers(tid) <= 1)
    /\ [][\A task \in BagToSet(tasks) :
              ScheduleExpiry(task)
                  => \A i \in 1..Len(Subscriptions) :
                         Subscriptions[i].telegram_id = task.telegram_id
                             => Subscriptions[i].expires_at <= now]_vars

\* User 1 renewed before the expiry, and the timer of the first activation
\* has removed them and set the renewed row to expired.
C14_Witness ==
    \E i \in 1..Len(Subscriptions) :
        /\ Subscriptions[i].telegram_id = 1
        /\ Subscriptions[i].activated_at > 0
        /\ Subscriptions[i].status = "expired"
        /\ Subscriptions[i].expires_at > now
        /\ removed[NORMAL_CHANNEL_ID][1] >= 1


\* A purchase row the poller acts on with the given action.
AwaitsPoller(action) ==
    \E i \in 1..Len(Purchases) :
        Purchases[i].admin_action = action /\ ~ContainsProcessed(Purchases[i].notes)

\* A step that rejects and does not approve: a reject button of either
\* keyboard, or a pass of the poller over rows of which it rejects some and
\* approves none.
RejectStep ==
    \/ \E b \in buttons, edited \in BOOLEAN : CallbackAdminPurchase("reject", b, edited)
    \/ \E b \in buttons, edited \in BOOLEAN : CallbackAdminCardApproval("reject", b, edited)
    \/ PollSheets /\ AwaitsPoller("reject") /\ ~AwaitsPoller("approve")

\* C15: a rejection leaves the Subscriptions, Referrals and GiftCards tables
\* and every wallet_balance as they were, and schedules neither an expiry
\* timer nor a reminder timer.
C15_RejectHasNoSideEffect ==
    [][RejectStep
          => /\ Subscriptions' = Subscriptions
             /\ Referrals' = Referrals
             /\ GiftCards' = GiftCards
             /\ Len(Users') = Len(Users)
             /\ \A u \in 1..Len(Users) : Users'[u].wallet_balance = Users[u].wallet_balance
             /\ tasks' = tasks
             /\ reminders' = reminders]_vars

\* One purchase was rejected by the button of the usdt keyboard, another by
\* the poller after the reject button of the card keyboard.
C15_Witness ==
    /\ \E i \in 1..Len(Purchases) : Purchases[i].admin_action = "rejected"
    /\ \E i \in 1..Len(Purchases) :
           Purchases[i].status = Txt("rejected") /\ Purchases[i].notes = "auto_processed"
    /\ Subscriptions = << >>
    /\ tasks = EmptyBag


\* The purchases of non-gift products priced at the tier price reduced by
\* the given percentage.
DiscountedBy(percent) ==
    {i \in 1..Len(Purchases) :
        /\ ~IsGift(Purchases[i].product)
        /\ Purchases[i].product # "test"
        /\ Purchases[i].amount_usd = (PriceOf(Purchases[i].product) * (100 - percent)) \div 100}

\* The codes of the given percentage, and the sum of their quotas.
CodesOf(percent) ==
    {i \in 1..Len(DiscountCodes) : DiscountCodes[i].discount_percent = percent}

RECURSIVE QuotaOf(_)
QuotaOf(S) ==
    IF S = {} THEN 0
    ELSE LET i == CHOOSE x \in S : TRUE
         IN  DiscountCodes[i].max_uses + QuotaOf(S \ {i})

\* C16: when a user whose state holds a discount code that validates picks
\* a payment method for a non-gift product, the row appended to Purchases is
\* priced at the tier price reduced by the code's percentage and the code's
\* used_count grows by exactly 1; and the purchases discounted by codes that
\* all have a quota are no more than these quotas allow.
C16_DiscountCountsAUse ==
    /\ [][\A user \in Buyers, method \in PayMethods, product \in {"normal", "premium"} :
              LET code == user_states[user].discount_code
                  validation == validate_discount_code(DiscountCodes, code, now)
              IN  (code # "" /\ validation.ok /\ CallbackPaymentMethod(user, method, product))
                      => /\ Len(Purchases') = Len(Purchases) + 1
                         /\ Purchases'[Len(Purchases')].amount_usd =
                                (PriceOf(product) * (100 - validation.discount)) \div 100
                         /\ DiscountCodes'[validation.idx - 1].used_count =
                                DiscountCodes[validation.idx - 1].used_count + 1]_vars
    /\ [](\A percent \in DiscountPercents :
              (\A i \in CodesOf(percent) : DiscountCodes[i].max_uses > 0)
                  => Cardinality(DiscountedBy(percent)) <= QuotaOf(CodesOf(percent)))

\* A code with a quota of one use has discounted two purchases and its
\* used_count is still 0.
C16_Witness ==
    /\ Len(DiscountCodes) = 1
    /\ DiscountCodes[1].max_uses = 1
    /\ DiscountCodes[1].used_count = 0
    /\ Cardinality(DiscountedBy(DiscountCodes[1].discount_percent)) = 2


\* The columns of a ledger row the commission run fills from its arguments.
Ledger(row) ==
    [referrer_id |-> row.referrer_id, referred_id |-> row.referred_id, level |-> row.level,
     commission_usd |-> row.commission_usd, purchase_id |-> row.purchase_id]

LedgerOf(rows) == [i \in 1..Len(rows) |-> Ledger(rows[i])]

\* What a commission run for the purchase does to the wallets and the ledger.
CommissionEffect(purchase_id, buyer, amount) ==
    LET referrer == ReferredBy(Users, buyer)
        second == IF referrer = 0 THEN 0 ELSE ReferredBy(Users, referrer)
        pays2 == referrer # 0 /\ second # 0 /\ second # buyer
        boost1 == Users[find_user(Users, referrer)].boost_data
        boost2 == Users[find_user(Users, second)].boost_data
        c1 == (amount * (IF boost1.active THEN boost1.level1 ELSE 8)) \div 100
        c2 == (amount * (IF boost2.active THEN boost2.level2 ELSE 12)) \div 100
        credit(u) == (IF referrer # 0 /\ u = referrer THEN c1 ELSE 0)
                     + (IF pays2 /\ u = second THEN c2 ELSE 0)
        row1 == [referrer_id |-> referrer, referred_id |-> buyer, level |-> 1,
                 commission_usd |-> c1, purchase_id |-> purchase_id]
        row2 == [referrer_id |-> second, referred_id |-> buyer, level |-> 2,
                 commission_usd |-> c2, purchase_id |-> purchase_id]
    IN  /\ Len(Users') = Len(Users)
        /\ \A i \in 1..Len(Users) :
               Users'[i].wallet_balance =
                   Users[i].wallet_balance + credit(Users[i].telegram_id)
        /\ LedgerOf(Referrals') =
               LedgerOf(Referrals) \o (IF referrer = 0 THEN << >> ELSE <<row1>>)
                                   \o (IF pays2 THEN <<row2>> ELSE << >>)

\* C17: the commission run of an approval does nothing when the buyer has
\* no referrer; otherwise it credits the level-1 referrer with the amount
\* times that referrer's own boost level1 percentage, 8 percent without a
\* boost, and, when the level-1 referrer has a referrer who is not the
\* buyer, credits that one with the amount times their own boost level2
\* percentage, 12 percent without a boost; each credit has one ledger row
\* of the same amount, and no other wallet changes.
C17_CommissionAmounts ==
    [][\A b \in buttons :
          CallbackAdminPurchase("approve", b, TRUE)
              => CommissionEffect(b.id, b.user_id, Purchases[b.id].amount_usd)]_vars

\* A purchase of user 1 paid a boosted level-1 referrer and a boosted
\* level-2 referrer, each at their own rate.
C17_Witness ==
    /\ Len(Referrals) = 2
    /\ Users[2].boost_data.active /\ Users[3].boost_data.active /\ ~Users[1].boost_data.active
    /\ Ledger(Referrals[1]) =
           [referrer_id |-> 2, referred_id |-> 1, level |-> 1,
            commission_usd |-> (NORMAL_PRICE * 22) \div 100, purchase_id |-> 1]
    /\ Ledger(Referrals[2]) =
           [referrer_id |-> 3, referred_id |-> 1, level |-> 2,
            commission_usd |-> (NORMAL_PRICE * 33) \div 100, purchase_id |-> 1]
    /\ Users[2].wallet_balance = (NORMAL_PRICE * 22) \div 100
    /\ Users[3].wallet_balance = (NORMAL_PRICE * 33) \div 100
    /\ Users[1].wallet_balance = 0


\* C18: /redeem with a usable code by a user whose boost_data already holds
\* a boost is answered with already_boosted and changes neither the user's
\* boost_data nor any code's used_count; by any other user it increments
\* the used_count of that code by exactly 1 and writes the boost, with the
\* code and its two percentages, to the user's row.
C18_OneBoostPerUser ==
    [][\A user \in UserIds, args \in {"save", "vip"} :
          LET i == UsableBoost(BoostCodes, upper(args), now)
              u == find_user(Users, user)
              v == find_user(Users', user)
          IN  (i # 0 /\ CmdRedeemSecret(user, args))
                  => IF u # 0 /\ Users[u].boost_data.active
                     THEN /\ replies'[user] = "already_boosted"
                          /\ Users' = Users
                          /\ BoostCodes' = BoostCodes
                     ELSE /\ BoostCodes' =
                                 [BoostCodes EXCEPT ![i].used_count = BoostCodes[i].used_count + 1]
                          /\ v # 0
                          /\ Users'[v].boost_data =
                                 BoostData(upper(args), BoostCodes[i].level1_percent,
                                           BoostCodes[i].level2_percent)]_vars

\* User 3, who has no Users row, was answered that the boost is active: the
\* code counts a use and no user holds a boost.
C18_Witness ==
    /\ replies[3] = "boost_applied"
    /\ find_user(Users, 3) = 0
    /\ \E i \in 1..Len(BoostCodes) : BoostCodes[i].used_count = 1
    /\ \A u \in 1..Len(Users) : ~Users[u].boost_data.active


\* Whether the purchase was approved: an activation or a gift card was made for it.
WasApproved(purchase_id) ==
    hist[purchase_id].activations > 0 \/ hist[purchase_id].gifts > 0

\* Whether an admin decided on the row, by a button or in the sheet.
WasDecided(row) ==
    \/ WasApproved(row.purchase_id)
    \/ row.admin_action \in {"approve", "reject", "approved", "rejected"}
    \/ row.status = Txt("rejected")

\* C19: the cell of a purchase row under the header status is pending from
\* the row's creation until an admin decision; after an approval it is
\* approved, approved_at is a time and approved_by the approver; and it is
\* always one of pending, approved, rejected, test.
C19_StatusColumn ==
    \A i \in 1..Len(Purchases) :
        LET row == Purchases[i]
        IN  /\ row.status \in {Txt("pending"), Txt("approved"), Txt("rejected"), Txt("test")}
            /\ ~WasDecided(row) => row.status = Txt("pending")
            /\ WasApproved(row.purchase_id)
                   => /\ row.status = Txt("approved")
                      /\ row.approved_at.k = "time"
                      /\ row.approved_by \in {Txt("admin"), IdStr(ADMIN_TELEGRAM_ID)}

\* A usdt purchase was approved by the button: the subscription is active,
\* the cell under admin_action reads approved, the cell under status holds
\* the time the row was created and the cell under approved_at the admin's id.
C19_Witness ==
    \E i \in 1..Len(Purchases) :
        /\ WasApproved(Purchases[i].purchase_id)
        /\ Purchases[i].admin_action = "approved"
        /\ Purchases[i].status.k = "time"
        /\ Purchases[i].approved_at = IdStr(ADMIN_TELEGRAM_ID)
        /\ \E j \in 1..Len(Subscriptions) :
               Subscriptions[j].telegram_id = Purchases[i].telegram_id


\* C20: every reminder sent is sent at its nominal time, the reminder of 7,
\* 3 or 1 days that many days before the expiry it was scheduled for, and
\* none is sent after that expiry.
C20_RemindersOnTime ==
    \A r \in reminded : r.at = r.expires - r.days /\ r.at <= r.expires

\* The process was restarted 5 days before the expiry: the 3-day reminder of
\* the new task went out 1 day before the expiry and its 1-day reminder 1
\* day after it.
C20_Witness ==
    /\ \E r \in reminded : r.days = 3 /\ r.at = r.expires - 1
    /\ \E r \in reminded : r.days = 1 /\ r.at = r.expires + 1
    /\ \E r \in reminded : r.days = 7 /\ r.at = r.expires - 7


\* What one activation of the user with the product does at the time of the step.
ActivationEffect(tid, product) ==
    /\ \E i \in 1..Len(Subscriptions') :
           /\ Subscriptions'[i].telegram_id = tid
           /\ Subscriptions'[i].status = "active"
           /\ Subscriptions'[i].subscription_type = product
           /\ Subscriptions'[i].expires_at = now + 180
    /\ \A c \in Channels :
           invites'[c][tid] = invites[c][tid] + (IF c \in TierChannels(product) THEN 1 ELSE 0)
    /\ tasks' = tasks (+) SetToBag({[telegram_id |-> tid, channels |-> TierChannels(product),
                                     due |-> now + 180]})

\* C21: an activation, whatever the product, makes the user's row active
\* with expires_at 180 days after the activation, asks for one invite link
\* for each channel of the tier (premium and normal for premium, normal
\* otherwise) and for no other, and schedules a timer for these channels;
\* a timer that fires calls remove_from_channel for exactly its channels.
C21_ActivationByTier ==
    /\ [][\A b \in buttons :
              CallbackAdminPurchase("approve", b, TRUE)
                  => ActivationEffect(b.user_id, Purchases[b.id].product)]_vars
    /\ [][\A task \in BagToSet(tasks) :
              ScheduleExpiry(task)
                  => \A c \in Channels, x \in UserIds :
                         removed'[c][x] =
                             removed[c][x]
                             + (IF x = task.telegram_id /\ c \in task.channels THEN 1 ELSE 0)]_vars

\* A premium purchase of user 1 was approved and its timer has fired: one
\* link was asked for each of the two channels, and one removal for each.
C21_Witness ==
    /\ Len(Subscriptions) = 1
    /\ Subscriptions[1].subscription_type = "premium"
    /\ Subscriptions[1].status = "expired"
    /\ \A c \in Channels : invites[c][1] = 1 /\ removed[c][1] = 1


\* The expiry times the clock of the model reaches.
ExpiryTimes == {t \in 1..MaxTime : t % RenewalStep = 0}

\* The user's Subscriptions row is active and expires at E.
ActiveUntil(tid, E) ==
    \E i \in 1..Len(Subscriptions) :
        /\ Subscriptions[i].telegram_id = tid
        /\ Subscriptions[i].status = "active"
        /\ Subscriptions[i].expires_at = E

\* The row was set to expired, with a removal of the user in this process
\* or at the start of it, or it was renewed to another expiry.
ExpiredOrRenewed(tid, E) ==
    \E i \in 1..Len(Subscriptions) :
        /\ Subscriptions[i].telegram_id = tid
        /\ \/ Subscriptions[i].status = "expired"
           \/ Subscriptions[i].expires_at # E

\* C22: whatever the restarts, a Subscriptions row that is active with
\* expiry E is eventually set to expired, and no row is set to expired
\* before its expires_at.
C22_ExpiryIsDurable ==
    /\ [][\A i \in 1..Len(Subscriptions) :
              (Subscriptions[i].status = "active" /\ Subscriptions'[i].status = "expired")
                  => /\ Subscriptions[i].expires_at <= now
                     /\ \E c \in Channels :
                            removed'[c][Subscriptions[i].telegram_id]
                                > removed[c][Subscriptions[i].telegram_id]]_vars
    /\ \A tid \in UserIds, E \in ExpiryTimes :
           ActiveUntil(tid, E) ~> ExpiredOrRenewed(tid, E)

\* After a restart and the startup pass, the timer of the startup pass has
\* set the row of user 1 to expired at its expires_at.
C22_Witness ==
    /\ rebuilt
    /\ startup_expired = {1}
    /\ Len(Subscriptions) = 1
    /\ Subscriptions[1].status = "expired"
    /\ Subscriptions[1].expires_at = now
    /\ Subscriptions[1].activated_at = 0
    /\ removed[NORMAL_CHANNEL_ID][1] = 1
    /\ tasks = EmptyBag

\* The Subscriptions row of the user is expired.
RowExpired(subs, tid) ==
    \E i \in 1..Len(subs) : subs[i].telegram_id = tid /\ subs[i].status = "expired"

\* C23: when the expiry job of a user fires while ban or unban raises for
\* one or all of the job's channels, the user's Subscriptions row is still
\* set to expired and removal is still attempted on every channel of the job.
C23_FailedRemovalStillExpires ==
    [][\A task \in BagToSet(tasks) :
          (ScheduleExpiry(task) /\ task.channels \cap failing # {})
              => /\ RowExpired(Subscriptions', task.telegram_id)
                 /\ \A c \in task.channels :
                        removed'[c][task.telegram_id] = removed[c][task.telegram_id] + 1]_vars

\* A premium subscription ran out while both channels refused the removal.
C23_Witness ==
    /\ failing = Channels
    /\ RowExpired(Subscriptions, 1)
    /\ removed[PREMIUM_CHANNEL_ID][1] = 1
    /\ removed[NORMAL_CHANNEL_ID][1] = 1
    /\ tasks = EmptyBag
    /\ now = SubscriptionDays

\* The code the text names is unknown, disabled or past its valid_until.
InvalidOrExpired(text) ==
    \A i \in 1..Len(DiscountCodes) :
        upper(DiscountCodes[i].code) = upper(text)
            => DiscountCodes[i].status # "active" \/ DiscountCodes[i].valid_until < now

\* The amount of the message is no number, or a number below the minimum or
\* above the user's balance, or the message has no destination, or the
\* destination is no USDT address where one is asked for.
BadWithdrawal(user, msg) ==
    \/ msg.parts < 2
    \/ msg.amount.kind # "number"
    \/ msg.amount.n < MinWithdrawal
    \/ msg.amount.n > get_user_balance(Users, user)
    \/ user_states[user].method = "usdt" /\ ~msg.destination_ok

\* The e-mail format of the specification: one "@", a name before it, and a
\* domain with a dot and a top-level name of two letters or more after it.
GoodEmails == {"a@b.co", "A@B.CO"}

\* C24: a text that fails validation changes no sheet: a malformed e-mail
\* address leaves Users as it is, a withdrawal message with a malformed,
\* non-numeric, too small or too large amount or a malformed USDT address
\* appends no Withdrawals row, an invalid or expired discount code leaves
\* DiscountCodes as it is, and a TXID of fewer than 20 characters leaves
\* Purchases as it is.
C24_ValidationErrorsMutateNothing ==
    [][/\ \A text \in EmailTexts \ GoodEmails :
              HandleEmailInput(1, text) => Users' = Users
       /\ \A msg \in WithdrawalMessages :
              (HandleWithdrawalMessage(1, msg) /\ BadWithdrawal(1, msg))
                  => Len(Withdrawals') = Len(Withdrawals)
       /\ \A text \in CodeNames :
              (HandleDiscountCodeInput(1, text) /\ InvalidOrExpired(text))
                  => DiscountCodes' = DiscountCodes
       /\ \A txid_len \in TxidLengths :
              (HandleUsdtTxidMessage(1, txid_len) /\ txid_len < MinTxidLen)
                  => Purchases' = Purchases]_vars

\* A withdrawal request whose amount is not a number is in the sheet.
C24_Witness ==
    \E i \in 1..Len(Withdrawals) :
        /\ Withdrawals[i].amount_usd = NaN
        /\ Withdrawals[i].status = "pending"
        /\ user_states[1].state = ""


\* The notes of a purchase row hold more than the poller's mark of a row it
\* has processed.
FailureNoted(row) == row.notes \notin {"", "auto_processed"}

\* The purchase of sheet row i + 1 is activated by this step while
\* create_invite_link fails for a channel of its tier.
ActivatedWithoutLink(i) ==
    /\ hist'[Purchases[i].purchase_id].activations > hist[Purchases[i].purchase_id].activations
    /\ TierChannels(Purchases[i].product) \cap failing # {}

\* The approval went through: the buyer's row is active and the purchase
\* row reads approved.
ApprovalCompleted(i) ==
    /\ \E j \in 1..Len(Subscriptions') :
           /\ Subscriptions'[j].telegram_id = Purchases[i].telegram_id
           /\ Subscriptions'[j].status = "active"
    /\ Purchases'[i].status = Txt("approved") \/ Purchases'[i].admin_action = "approved"

\* C25: when create_invite_link fails during the activation of an approved
\* purchase, the approval still completes (the Subscriptions row is active,
\* the purchase row reads approved) and the notes of the purchase row record
\* the failure.
C25_LinkFailureIsNoted ==
    [][\A i \in 1..Len(Purchases) :
          ActivatedWithoutLink(i) => ApprovalCompleted(i) /\ FailureNoted(Purchases'[i])]_vars

\* The poller approved a purchase while no link could be made: the row is
\* active and approved, and its notes hold the poller's mark only.
C25_Witness ==
    /\ failing = Channels
    /\ invites[NORMAL_CHANNEL_ID][1] = 1
    /\ \E i \in 1..Len(Purchases) :
           /\ hist[Purchases[i].purchase_id].activations = 1
           /\ Purchases[i].status = Txt("approved")
           /\ Purchases[i].notes = "auto_processed"
    /\ \E j \in 1..Len(Subscriptions) : Subscriptions[j].status = "active"


AdminIds == {ADMIN_TELEGRAM_ID, ADMIN2_TELEGRAM_ID}

\* No row of a table changes, the wallets in Users included.
TablesUnchanged ==
    UNCHANGED <<Users, Subscriptions, Purchases, Referrals, GiftCards, Withdrawals,
                DiscountCodes, BoostCodes, Tickets>>

\* A call of one of the admin's handlers by the caller.
AdminCall(caller) ==
    \/ \E action \in {"approve", "reject"}, b \in buttons :
           \/ AdminPurchaseCallback(caller, action, b)
           \/ AdminCardCallback(caller, action, b)
           \/ AdminWithdrawalCallback(caller, action, b)
    \/ AdminTxidMessage(caller)
    \/ \E ticket_id \in 1..MaxTickets : CmdAdminReply(caller, ticket_id)
    \/ CmdCreateCode(caller, "save", 1)
    \/ CmdCreateBoostBy(caller, "BOOST")

\* The id a decision made through the bot left in the row is an admin's.
DecidedByAdmin(cell) == cell.k = "id" => cell.n \in AdminIds

\* Every decision the bot recorded on a purchase or a withdrawal is an admin's.
DecisionsAreAdmins ==
    /\ \A i \in 1..Len(Purchases) :
           DecidedByAdmin(Purchases[i].approved_at) /\ DecidedByAdmin(Purchases[i].approved_by)
    /\ \A j \in 1..Len(Withdrawals) : DecidedByAdmin(Withdrawals[j].processed_by)

\* C26: a call of the purchase, card or withdrawal callbacks, of the TXID
\* message, of /reply, /createcode or /createboost by a caller who is
\* neither of the two admins changes no table row and no wallet; and every
\* decision the bot recorded on a purchase or a withdrawal is an admin's.
C26_AdminOnly ==
    /\ [][\A caller \in Callers \ AdminIds : AdminCall(caller) => TablesUnchanged]_vars
    /\ []DecisionsAreAdmins

\* Users 1 and 2 pressed a button of the admin and were refused, the request
\* is still pending, and the second admin has approved the purchase.
C26_Witness ==
    /\ replies[1] = "not_admin"
    /\ replies[2] = "not_admin"
    /\ \E i \in 1..Len(Withdrawals) : Withdrawals[i].status = "pending"
    /\ \E i \in 1..Len(Purchases) : Purchases[i].approved_at = IdStr(ADMIN2_TELEGRAM_ID)


\* The tables and the links are as they were.
NothingRedeemed ==
    UNCHANGED <<Users, Subscriptions, Purchases, Referrals, GiftCards, invites, tasks>>

\* C27: no Users row names its own telegram_id as referred_by, no gift card
\* is redeemed by its buyer, and /start gift_<code> of the buyer of the card
\* is refused and changes nothing.
C27_NoSelfReferral ==
    /\ [](/\ \A u \in 1..Len(Users) : Users[u].referred_by # Users[u].telegram_id
           /\ \A g \in 1..Len(GiftCards) :
                  GiftCards[g].status = "redeemed"
                      => GiftCards[g].recipient_id # GiftCards[g].buyer_id)
    /\ [][\A g \in 1..Len(GiftCards), is_member \in BOOLEAN :
              CmdStart(GiftCards[g].buyer_id, GiftArg(GiftCards[g].gift_code), is_member)
                  => NothingRedeemed /\ replies'[GiftCards[g].buyer_id] = "gift_invalid"]_vars

\* The buyer of the card was refused, another user redeemed it, and user 3
\* registered with a referral code.
C27_Witness ==
    /\ \E g \in 1..Len(GiftCards) :
           /\ replies[GiftCards[g].buyer_id] = "gift_invalid"
           /\ GiftCards[g].status = "redeemed"
    /\ \E u \in 1..Len(Users) : Users[u].telegram_id = 3 /\ Users[u].referred_by # 0


\* C28: whatever the interleaving of the /start, check_membership and
\* e-mail confirmation handlers of the same or of different users, no two
\* rows of Users have the same telegram_id.
C28_UniqueTelegramId ==
    \A i, j \in 1..Len(Users) : Users[i].telegram_id = Users[j].telegram_id => i = j

\* User 2 was registered by one handler while /start of the same user is
\* still waiting for check_required_channels, and user 3 is registered too.
C28_Witness ==
    /\ \E h \in running : h.handler = "cmd_start" /\ h.user = 2
    /\ find_user(Users, 2) # 0
    /\ find_user(Users, 3) # 0
    /\ Users[find_user(Users, 3)].email = "a@b.co"


\* The sum of amount_usd over the rows 1..n of Withdrawals that are the
\* user's.
RECURSIVE RequestedTotal(_, _)
RequestedTotal(tid, n) ==
    IF n = 0 THEN 0
    ELSE RequestedTotal(tid, n - 1)
         + (IF Withdrawals[n].telegram_id = tid THEN Withdrawals[n].amount_usd ELSE 0)

\* What has been subtracted from the user's wallet: nothing is credited to a
\* wallet while withdrawals are asked for and completed.
Subtracted(tid) == InitBalance(tid) - get_user_balance(Users, tid)

\* C29: a withdrawal is debited at most once, by the approve click, the TXID
\* message or the poller: what has been subtracted from a user's wallet on
\* account of the user's withdrawals is at most the sum of their amounts.
C29_DebitedAtMostOnce ==
    \A tid \in UserIds : Subtracted(tid) <= RequestedTotal(tid, Len(Withdrawals))

\* A withdrawal of user 1 was completed in chat and then processed by the
\* poller, and the wallet lost twice its amount.
C29_Witness ==
    \E i \in 1..Len(Withdrawals) :
        /\ Withdrawals[i].telegram_id = 1
        /\ Withdrawals[i].status = "completed"
        /\ Withdrawals[i].notes = "TXID [auto_processed]"
        /\ Subtracted(1) = 2 * Withdrawals[i].amount_usd
        /\ RequestedTotal(1, Len(Withdrawals)) = Withdrawals[i].amount_usd


\* Sheet row withdrawal_idx of Withdrawals is a pending request whose amount
\* the user's wallet still holds.
PendingAt(withdrawal_idx) ==
    /\ withdrawal_idx - 1 \in 1..Len(Withdrawals)
    /\ Withdrawals[withdrawal_idx - 1].status = "pending"
    /\ Withdrawals[withdrawal_idx - 1].amount_usd
           <= get_user_balance(Users, Withdrawals[withdrawal_idx - 1].telegram_id)

\* The step completed sheet row withdrawal_idx and debited the wallet.
CompletedAt(withdrawal_idx) ==
    LET row == Withdrawals[withdrawal_idx - 1]
    IN  /\ Withdrawals'[withdrawal_idx - 1].status = "completed"
        /\ Withdrawals'[withdrawal_idx - 1].processed_at # Empty
        /\ get_user_balance(Users', row.telegram_id)
               = get_user_balance(Users, row.telegram_id) - row.amount_usd

\* C30: an approve click on a pending card withdrawal, and the TXID message
\* after an approve click on a pending usdt withdrawal, complete the row at
\* the recorded index, set processed_at and debit the wallet by the amount,
\* wherever the row stands in the table, the last row included.
C30_ApprovalCompletesAnyRow ==
    [][/\ \A b \in buttons, edited \in BOOLEAN :
              CallbackAdminWithdrawal("approve", b, edited) /\ PendingAt(b.idx)
                  /\ Withdrawals[b.idx - 1].method = "card"
              => CompletedAt(b.idx)
       /\ HandleTxidForWithdrawal /\ PendingAt(user_states[ADMIN_TELEGRAM_ID].withdrawal_idx)
              => CompletedAt(user_states[ADMIN_TELEGRAM_ID].withdrawal_idx)]_vars

\* The approve button of the last row, a card request, was pressed and its
\* keyboard edited away, and the row is still pending.
C30_Witness ==
    /\ Len(Withdrawals) > 0
    /\ Withdrawals[Len(Withdrawals)].method = "card"
    /\ Withdrawals[Len(Withdrawals)].status = "pending"
    /\ Withdrawals[Len(Withdrawals)].processed_at = Empty
    /\ \A b \in buttons : b.kind = "withdrawal" => b.idx # Len(Withdrawals) + 1


\* The sum of amount_usd over the rows 1..n of Withdrawals that are the
\* user's and whose completion the bot has carried out, in chat (notes
\* "TXID") or in a poller pass (notes marked auto_processed).
RECURSIVE CompletedTotal(_, _)
CompletedTotal(tid, n) ==
    IF n = 0 THEN 0
    ELSE CompletedTotal(tid, n - 1)
         + (IF /\ Withdrawals[n].telegram_id = tid
               /\ Withdrawals[n].status = "completed"
               /\ Withdrawals[n].notes # ""
            THEN Withdrawals[n].amount_usd ELSE 0)

\* C31: no overdraw: the amounts of a user's completed withdrawals add up to
\* at most what was ever credited to the user's wallet, here the commissions
\* the wallet starts with (nothing is credited while withdrawals are made).
C31_NoOverdraw ==
    \A tid \in UserIds : CompletedTotal(tid, Len(Withdrawals)) <= InitBalance(tid)

\* Two requests of user 1, each within the balance and together above it,
\* have both been completed.
C31_Witness ==
    /\ Len(Withdrawals) = 2
    /\ \A i \in 1..2 : /\ Withdrawals[i].telegram_id = 1
                        /\ Withdrawals[i].amount_usd <= InitBalance(1)
                        /\ Withdrawals[i].status = "completed"
                        /\ Withdrawals[i].notes # ""
    /\ Withdrawals[1].amount_usd + Withdrawals[2].amount_usd > InitBalance(1)


\* The user's stored Subscriptions row is active and runs beyond now.
StoredFuture(u) ==
    \E i \in 1..Len(Subscriptions) :
        /\ Subscriptions[i].telegram_id = u
        /\ Subscriptions[i].status = "active"
        /\ Subscriptions[i].expires_at > now

\* The step leaves the user's row as it is and makes no remove_from_channel
\* call for the user.
LeavesAlone(u) ==
    /\ \A i \in 1..Len(Subscriptions) :
           Subscriptions[i].telegram_id = u => Subscriptions'[i] = Subscriptions[i]
    /\ \A c \in AllChannels : removed'[c][u] = removed[c][u]

\* C32: whatever handlers run between the steps of the startup pass, no
\* step of the pass sets to expired, overwrites with the expires_at it read
\* earlier, or removes from a channel, a user whose stored row is active
\* with expires_at in the future when the step is taken.
C32_PassSparesRenewedRows ==
    [][(RebuildBegins \/ \E h \in running : RebuildResumes(h))
           => \A u \in UserIds : StoredFuture(u) => LeavesAlone(u)]_vars

\* The pass has set to expired the row of a user whose activation, begun
\* at the present time, still awaits its invite link.
C32_Witness ==
    \E h \in running :
        /\ h.handler = "activate_subscription"
        /\ h.args.t = now
        /\ h.user \in startup_expired
        /\ \E i \in 1..Len(Subscriptions) :
               /\ Subscriptions[i].telegram_id = h.user
               /\ Subscriptions[i].status = "expired"
               /\ Subscriptions[i].expires_at <= now


TestRowsOf(u) == {i \in 1..Len(Purchases) : Purchases[i].telegram_id = u /\ Purchases[i].product = "test"}

\* C33: however the free-trial handlers of a user's updates interleave, the
\* user has at most one test row in Purchases and is issued at most one
\* invite link of the test channel.
C33_OneTrialUnderConcurrency ==
    \A u \in UserIds :
        /\ Cardinality(TestRowsOf(u)) <= 1
        /\ invites[TEST_CHANNEL_ID][u] <= 1

\* Two requests of user 1 that both scanned Purchases before either appended
\* have both been granted.
C33_Witness ==
    /\ Cardinality(TestRowsOf(1)) = 2
    /\ invites[TEST_CHANNEL_ID][1] = 2
    /\ running = {}


RedeemedCards == {g \in 1..Len(GiftCards) : GiftCards[g].status = "redeemed"}

\* The first card of the code is pending and the user is not its buyer.
Redeemable(user, gift_code) ==
    LET g == FirstIndex(GiftCards, LAMBDA r : r.gift_code = gift_code)
    IN  g # 0 /\ GiftCards[g].status = "pending" /\ GiftCards[g].buyer_id # user

\* C34: however the /start gift_<code> handlers interleave, a card is
\* redeemed at most once: an attempt on a pending card by a user other than
\* its buyer redeems it for that user and activates the user's subscription,
\* a redeemed card stays with its recipient, and every other attempt, on a
\* redeemed or unknown code included, activates nothing and changes no row.
C34_RedeemedAtMostOnce ==
    [][/\ \A g \in RedeemedCards :
              /\ GiftCards'[g] = GiftCards[g]
       /\ \A user \in UserIds, gift_code \in 0..MaxGiftCodes :
              GiftStartBegins(user, gift_code) =>
                  IF Redeemable(user, gift_code)
                  THEN /\ Cardinality(RedeemedCards') = Cardinality(RedeemedCards) + 1
                       /\ \E g \in RedeemedCards' \ RedeemedCards :
                              /\ GiftCards'[g].recipient_id = user
                              /\ GiftCards'[g].gift_code = gift_code
                       /\ Cardinality(running') = Cardinality(running) + 1
                       /\ \E i \in RowsOf(Subscriptions', user) :
                              /\ Subscriptions'[i].status = "active"
                              /\ Subscriptions'[i].payment_method = "gift"
                  ELSE UNCHANGED <<Users, Subscriptions, Purchases, Referrals, GiftCards,
                                   Withdrawals, invites, tasks, running>>]_vars

\* Users 2 and 3 both sent /start with the code of the same card while the
\* other's handler was in flight: one has redeemed it and awaits the invite
\* link, the other was refused.
C34_Witness ==
    \E h \in running, u \in UserIds :
        /\ h.handler = "cmd_start"
        /\ u # h.user
        /\ u # 1
        /\ replies[u] = "gift_invalid"
        /\ \E g \in RedeemedCards : GiftCards[g].recipient_id = h.user
        /\ \A i \in 1..Len(Subscriptions) : Subscriptions[i].telegram_id # u


\* The users whose boost_data names the code.
BoostedWith(code) ==
    {u \in UserIds : /\ find_user(Users, u) # 0
                     /\ Users[find_user(Users, u)].boost_data.active
                     /\ upper(Users[find_user(Users, u)].boost_data.code) = upper(code)}

\* C35: however the /redeem handlers interleave, a boost code with
\* max_uses > 0 has used_count at most max_uses, and at most max_uses users
\* carry it in their boost_data.
C35_BoostQuotaKept ==
    \A i \in 1..Len(BoostCodes) :
        BoostCodes[i].max_uses > 0 =>
            /\ BoostCodes[i].used_count <= BoostCodes[i].max_uses
            /\ Cardinality(BoostedWith(BoostCodes[i].code)) <= BoostCodes[i].max_uses

\* The quota of a code is used up by two users whose handlers both still
\* await their reply, and a third user is registered without a boost.
C35_Witness ==
    \E i \in 1..Len(BoostCodes) :
        /\ BoostCodes[i].max_uses = 2
        /\ BoostCodes[i].used_count = 2
        /\ Cardinality(BoostedWith(BoostCodes[i].code)) = 2
        /\ Cardinality({h \in running : h.args.outcome = "applied"
                                           /\ h.args.code = BoostCodes[i].code}) = 2
        /\ find_user(Users, 3) # 0


\* C36: the poller processes a purchase flagged approve once, also when the
\* update_row that clears admin_action and records auto_processed fails:
\* no purchase is activated twice and none has its commissions paid twice.
C36_ProcessedOnceDespiteFailure ==
    \A p \in 1..Len(hist) : hist[p].activations <= 1 /\ hist[p].commissions <= 1

\* A purchase was activated and paid for in a pass whose update_row failed,
\* and again in the next pass, which recorded it.
C36_Witness ==
    \E i \in 1..Len(Purchases) :
        /\ hist[Purchases[i].purchase_id].activations = 2
        /\ hist[Purchases[i].purchase_id].commissions = 2
        /\ Purchases[i].notes = "auto_processed"
        /\ Cardinality(RowsOf(Subscriptions, Purchases[i].telegram_id)) = 1

\* C37: a read of the store that fails is not taken for an empty table: no
\* user gets a second Subscriptions row, and no user who has a test row in
\* Purchases gets a second one.
C37_FailedReadIsNotEmpty ==
    \A u \in UserIds :
        /\ Cardinality(RowsOf(Subscriptions, u)) <= 1
        /\ Cardinality(TestRowsOf(u)) <= 1

\* User 1 has two Subscriptions rows and user 2 was granted two trials.
C37_Witness ==
    /\ Cardinality(RowsOf(Subscriptions, 1)) = 2
    /\ Cardinality(TestRowsOf(2)) = 2
    /\ invites[TEST_CHANNEL_ID][2] = 2


\* The message a prompt of handle_gift_message showed.
PromptText(reply) ==
    CASE reply = "gift_prompt_hi" -> "hi"
      [] reply = "gift_prompt_yo" -> "yo"
      [] OTHER -> ""

\* C38: the message of a minted gift card is the text its buyer entered in
\* the state awaiting_gift_message, empty only after /skip, whatever the
\* payment method and the approval path.
C38_GiftMessageSurvives ==
    \A g \in 1..Len(GiftCards) :
        GiftCards[g].message = PromptText(replies[GiftCards[g].buyer_id])

\* User 1 entered the message hi, paid for the gift by card, and the card
\* was minted and redeemed by user 2.
C38_Witness ==
    \E g \in 1..Len(GiftCards) :
        /\ GiftCards[g].buyer_id = 1
        /\ replies[1] = "gift_prompt_hi"
        /\ GiftCards[g].status = "redeemed"
        /\ GiftCards[g].recipient_id = 2
        /\ \E i \in 1..Len(Purchases) : /\ Purchases[i].product = "gift_normal"
                                          /\ Purchases[i].payment_method = "card"
                                          /\ Purchases[i].notes = "auto_processed"


\* The user has a purchase of a subscription of one of the two tiers that
\* was approved, by the button (which writes approved into the column
\* admin_action) or by the poller (which writes it into the column status).
RealApproved(u) ==
    \E i \in 1..Len(Purchases) :
        /\ Purchases[i].telegram_id = u
        /\ Purchases[i].product \in {"normal", "premium"}
        /\ Purchases[i].admin_action = "approved" \/ Purchases[i].status = Txt("approved")

\* C39: callback_buy_gift lets a user go on to buy a gift exactly when the
\* user has an approved purchase of the normal or premium subscription,
\* whatever the payment method and the approval path: a free-trial row, a
\* pending or a rejected purchase do not count.
C39_GiftEligibility ==
    \A u \in Buyers : has_purchased(Purchases, u) <=> RealApproved(u)

\* User 1, whose only row is the free trial, was shown the gift menu, and
\* user 2, whose card purchase the poller approved, is refused it.
C39_Witness ==
    /\ "gift_menu" \in keyboards[1]
    /\ \A i \in 1..Len(Purchases) : Purchases[i].telegram_id = 1 => Purchases[i].product = "test"
    /\ RealApproved(2)
    /\ ~has_purchased(Purchases, 2)

====
